---- MODULE Spec2Model ----
(***************************************************************************)
(* Model of the angular-text-extractor session (src/extractor.js) and of   *)
(* the command line entry point (bin/cli.js).                              *)
(*                                                                         *)
(* Strings are TLA+ strings; a character is a string of length one.        *)
(* A JavaScript value that may be null is a sequence of length 0 (null)    *)
(* or 1 (the value).                                                       *)
(***************************************************************************)
EXTENDS Integers, Sequences, FiniteSets, TLC

(***************************************************************************)
(* Characters and elementary string functions of the JavaScript runtime.   *)
(***************************************************************************)
LowerAlpha == "abcdefghijklmnopqrstuvwxyz"
UpperAlpha == "ABCDEFGHIJKLMNOPQRSTUVWXYZ"
DigitAlpha == "0123456789"

Ch(s, i) == SubSeq(s, i, i)
CharsOf(s) == { Ch(s, i) : i \in 1..Len(s) }

Lower == CharsOf(LowerAlpha)
Upper == CharsOf(UpperAlpha)
Digit == CharsOf(DigitAlpha)
Letter == Lower \cup Upper
AlphaNum == Letter \cup Digit
\* \s of the regular expressions
Space == {" ", "\t", "\n", "\r"}
\* \w of the regular expressions
WordCh == AlphaNum \cup {"_"}

IndexIn(alpha, c) == CHOOSE i \in 1..Len(alpha) : Ch(alpha, i) = c

toLowerCh(c) == IF c \in Upper THEN Ch(LowerAlpha, IndexIn(UpperAlpha, c)) ELSE c
toUpperCh(c) == IF c \in Lower THEN Ch(UpperAlpha, IndexIn(LowerAlpha, c)) ELSE c

\* Array.prototype.join(''), by halving
RECURSIVE joinRange(_, _, _)
joinRange(ws, lo, hi) ==
  IF lo > hi THEN ""
  ELSE IF lo = hi THEN ws[lo]
  ELSE LET mid == (lo + hi) \div 2
       IN  joinRange(ws, lo, mid) \o joinRange(ws, mid + 1, hi)

join(ws) == joinRange(ws, 1, Len(ws))

toLowerCase(s) == join([i \in 1..Len(s) |-> toLowerCh(Ch(s, i))])

\* the string without its leading / trailing white space
trimStart(s) ==
  IF \A i \in 1..Len(s) : Ch(s, i) \in Space THEN ""
  ELSE SubSeq(s, CHOOSE i \in 1..Len(s) :
                   Ch(s, i) \notin Space /\ \A j \in 1..(i - 1) : Ch(s, j) \in Space,
              Len(s))

trimEnd(s) ==
  IF \A i \in 1..Len(s) : Ch(s, i) \in Space THEN ""
  ELSE SubSeq(s, 1, CHOOSE i \in 1..Len(s) :
                      Ch(s, i) \notin Space /\ \A j \in (i + 1)..Len(s) : Ch(s, j) \in Space)

\* String.prototype.trim
trim(s) == trimEnd(trimStart(s))

\* String.prototype.substring(0, n)
substring0(s, n) == IF Len(s) <= n THEN s ELSE SubSeq(s, 1, n)

\* s.startsWith(p), s.endsWith(p), s.includes(p)
startsWith(s, p) == Len(p) <= Len(s) /\ SubSeq(s, 1, Len(p)) = p
endsWith(s, p) == Len(p) <= Len(s) /\ SubSeq(s, Len(s) - Len(p) + 1, Len(s)) = p
includes(s, p) == \E i \in 1..(Len(s) - Len(p) + 1) : SubSeq(s, i, i + Len(p) - 1) = p

\* s.lastIndexOf(c) for a character c, 1-based, 0 when absent
lastIndexOf(s, c) ==
  IF \E i \in 1..Len(s) : Ch(s, i) = c
  THEN CHOOSE i \in 1..Len(s) : Ch(s, i) = c /\ \A j \in (i + 1)..Len(s) : Ch(s, j) # c
  ELSE 0

\* s.split('-')
RECURSIVE split(_, _)
split(s, c) ==
  IF \E i \in 1..Len(s) : Ch(s, i) = c
  THEN LET i == CHOOSE k \in 1..Len(s) : Ch(s, k) = c /\ \A j \in 1..(k - 1) : Ch(s, j) # c
       IN  <<SubSeq(s, 1, i - 1)>> \o split(SubSeq(s, i + 1, Len(s)), c)
  ELSE <<s>>

\* Number to decimal string, as in a template literal
RECURSIVE Dec(_)
Dec(n) == IF n < 10 THEN Ch(DigitAlpha, n + 1) ELSE Dec(n \div 10) \o Ch(DigitAlpha, (n % 10) + 1)

(***************************************************************************)
(* Node's path module, for the normalised POSIX paths the glob returns.    *)
(***************************************************************************)
\* last path segment
basename1(p) == SubSeq(p, lastIndexOf(p, "/") + 1, Len(p))

\* path.extname: from the last dot of the last segment; "" when there is
\* none or when the only dot is the segment's first character
extname(p) ==
  LET b == basename1(p)
      d == lastIndexOf(b, ".")
  IN  IF d <= 1 THEN "" ELSE SubSeq(b, d, Len(b))

\* path.basename(p, ext)
basename(p, ext) ==
  LET b == basename1(p)
  IN  IF ext # "" /\ ext # b /\ endsWith(b, ext)
      THEN SubSeq(b, 1, Len(b) - Len(ext))
      ELSE b

\* path.dirname for a path with at least one directory
dirname(p) ==
  LET d == lastIndexOf(p, "/")
  IN  IF d = 0 THEN "." ELSE IF d = 1 THEN "/" ELSE SubSeq(p, 1, d - 1)

\* path.join(dir, file) for normalised operands
pathJoin(dir, file) == dir \o "/" \o file

(***************************************************************************)
(* TextExtractor.extractComponentName                                      *)
(***************************************************************************)
ComponentSuffixes ==
  <<"component", "service", "directive", "pipe", "guard", "resolver", "module", "spec", "test">>
ComponentPrefixes == <<"app-", "ng-">>

\* componentName.replace(/\.(component|...|test)$/i, '')
stripSuffix(name) ==
  LET low == toLowerCase(name)
      hit == { i \in 1..Len(ComponentSuffixes) : endsWith(low, "." \o ComponentSuffixes[i]) }
  IN  IF hit = {} THEN name
      ELSE LET i == CHOOSE k \in hit : TRUE
           IN  SubSeq(name, 1, Len(name) - Len(ComponentSuffixes[i]) - 1)

\* componentName.replace(/^(app-|ng-)/i, '')
stripPrefix(name) ==
  LET low == toLowerCase(name)
      hit == { i \in 1..Len(ComponentPrefixes) : startsWith(low, ComponentPrefixes[i]) }
  IN  IF hit = {} THEN name
      ELSE LET i == CHOOSE k \in hit : TRUE
           IN  SubSeq(name, Len(ComponentPrefixes[i]) + 1, Len(name))

\* word.charAt(0)
charAt0(w) == IF w = "" THEN "" ELSE Head(w)

\* words.map((word, index) => index === 0 ? word : capitalised word).join('')
camelJoin(ws) ==
  join([i \in 1..Len(ws) |->
          IF i = 1 THEN ws[i]
          ELSE toUpperCh(charAt0(ws[i])) \o (IF ws[i] = "" THEN "" ELSE Tail(ws[i]))])

\* words.map(word => word.charAt(0)).join('').toLowerCase()
abbreviate(ws) == toLowerCase(join([i \in 1..Len(ws) |-> charAt0(ws[i])]))

MaxCamelLen == 15
ShortCamelLen == 10

extractComponentName(filePath) ==
  LET fileName == basename(filePath, extname(filePath))
      componentName == stripPrefix(stripSuffix(fileName))
      words == split(componentName, "-")
      camelCase == camelJoin(words)
      abbreviated == abbreviate(words)
  IN  IF Len(camelCase) > MaxCamelLen
      THEN IF Len(abbreviated) >= 2 THEN abbreviated ELSE substring0(camelCase, ShortCamelLen)
      ELSE IF camelCase = "" THEN "comp" ELSE camelCase

(***************************************************************************)
(* TextExtractor.generateKey                                               *)
(***************************************************************************)
MaxSlugLen == 25

\* .replace(/[^a-zA-Z0-9\s]/g, '')
stripNonAlnum(s) ==
  join([i \in 1..Len(s) |-> IF Ch(s, i) \in AlphaNum \cup Space THEN Ch(s, i) ELSE ""])

\* .replace(/\s+/g, '_')
\* (each maximal run of white space yields one underscore, at its first character)
collapseSpace(s) ==
  join([i \in 1..Len(s) |->
          IF Ch(s, i) \notin Space THEN Ch(s, i)
          ELSE IF i = 1 \/ Ch(s, i - 1) \notin Space THEN "_"
          ELSE ""])

\* the slug cut at 30 characters, not 25
cleanTextOfLong(text) ==
  substring0(collapseSpace(stripNonAlnum(toLowerCase(trim(text)))), MaxSlugLen + 5)

cleanTextOf(text) ==
  substring0(collapseSpace(stripNonAlnum(toLowerCase(trim(text)))), MaxSlugLen)

\* filePath ? this.extractComponentName(filePath) : this.currentComponentContext
\* (a null or empty file path is falsy)
contextFor(filePath, current) ==
  IF filePath # <<>> /\ filePath[1] # "" THEN <<extractComponentName(filePath[1])>> ELSE current

\* componentContext ? `${componentContext}.` : ''
contextPart(componentContext) ==
  IF componentContext # <<>> /\ componentContext[1] # "" THEN componentContext[1] \o "." ELSE ""

\* `${this.options.keyPrefix}.${contextPart}${cleanText}_${this.keyCounter++}`
keyString(prefix, componentContext, text, n) ==
  prefix \o "." \o contextPart(componentContext) \o cleanTextOf(text) \o "_" \o Dec(n)

\* the key generateKey(text, filePath) returns when the session's context is
\* current and its counter is n
generateKey(prefix, current, n, text, filePath) ==
  keyString(prefix, contextFor(filePath, current), text, n)

\* the counter left as it is
postIncrementStuck(n) == n

\* this.keyCounter++
postIncrement(n) == n + 1

\* what one call of generateKey leaves in the key log
KeyEntry(key, text, value, kind, el, file, current, filePath, n) ==
  [key |-> key, text |-> text, value |-> value, kind |-> kind, element |-> el,
   file |-> file, current |-> current, filePath |-> filePath, counter |-> n]

(***************************************************************************)
(* Regular expressions.  A pattern is a tagged tuple; Ends(re, s, i) is    *)
(* the set of positions at which a match of re that starts at position i   *)
(* of s can end (the position after the last matched character).           *)
(***************************************************************************)
Set(S) == <<"set", S>>
NotSet(S) == <<"nset", S>>
Lit(str) == <<"lit", str>>
LitI(str) == <<"liti", str>>
Cat(rs) == <<"cat", rs>>
Alt(rs) == <<"alt", rs>>
Star(r) == <<"star", r>>
Plus(r) == <<"plus", r>>
Opt(r) == <<"opt", r>>
Bol == <<"bol">>
Eol == <<"eol">>
\* . matches every character but a line terminator
Dot == NotSet({"\n", "\r"})
AltLit(strs) == Alt([k \in 1..Len(strs) |-> Lit(strs[k])])
AltLitI(strs) == Alt([k \in 1..Len(strs) |-> LitI(strs[k])])
\* r{n,}
AtLeast(r, n) == Cat([k \in 1..(n + 1) |-> IF k <= n THEN r ELSE Star(r)])

RECURSIVE Ends(_, _, _)
RECURSIVE CatEnds(_, _, _)
RECURSIVE StarEnds(_, _, _)

CatEnds(rs, s, from) ==
  IF rs = <<>> \/ from = {} THEN from
  ELSE CatEnds(Tail(rs), s, UNION { Ends(Head(rs), s, j) : j \in from })

\* the positions a run of characters of one class can reach from position i
RunEnds(r, s, i) ==
  { j \in i..(Len(s) + 1) :
      \A k \in i..(j - 1) : IF r[1] = "set" THEN Ch(s, k) \in r[2] ELSE Ch(s, k) \notin r[2] }

StarEnds(r, s, from) ==
  IF r[1] \in {"set", "nset"} THEN UNION { RunEnds(r, s, j) : j \in from }
  ELSE LET more == from \cup UNION { Ends(r, s, j) : j \in from }
       IN  IF more = from THEN from ELSE StarEnds(r, s, more)

Ends(re, s, i) ==
  CASE re[1] = "set"  -> IF i <= Len(s) /\ Ch(s, i) \in re[2] THEN {i + 1} ELSE {}
    [] re[1] = "nset" -> IF i <= Len(s) /\ Ch(s, i) \notin re[2] THEN {i + 1} ELSE {}
    [] re[1] = "lit"  -> IF i + Len(re[2]) - 1 <= Len(s)
                            /\ SubSeq(s, i, i + Len(re[2]) - 1) = re[2]
                         THEN {i + Len(re[2])} ELSE {}
    [] re[1] = "liti" -> IF i + Len(re[2]) - 1 <= Len(s)
                            /\ toLowerCase(SubSeq(s, i, i + Len(re[2]) - 1)) = toLowerCase(re[2])
                         THEN {i + Len(re[2])} ELSE {}
    [] re[1] = "cat"  -> CatEnds(re[2], s, {i})
    [] re[1] = "alt"  -> UNION { Ends(re[2][k], s, i) : k \in 1..Len(re[2]) }
    [] re[1] = "star" -> StarEnds(re[2], s, {i})
    [] re[1] = "plus" -> StarEnds(re[2], s, Ends(re[2], s, i))
    [] re[1] = "opt"  -> {i} \cup Ends(re[2], s, i)
    [] re[1] = "bol"  -> IF i = 1 THEN {i} ELSE {}
    [] re[1] = "eol"  -> IF i = Len(s) + 1 THEN {i} ELSE {}

\* RegExp.prototype.test
test(re, s) == \E i \in 1..(Len(s) + 1) : Ends(re, s, i) # {}

(***************************************************************************)
(* TextExtractor.isExcluded                                                *)
(***************************************************************************)
\* [0-9\s\-_.,;:!?()[\]{}]
PunctCh == Digit \cup Space \cup {"-", "_", ".", ",", ";", ":", "!", "?", "(", ")", "[", "]", "{", "}"}

isExcluded(text) ==
  LET trimmed == trim(text)
  IN  \/ Len(trimmed) = 0
      \/ Len(trimmed) < 2
      \/ test(Cat(<<Bol, Star(Set(Space)), Eol>>), trimmed)
      \/ test(Cat(<<Bol, Plus(Set(PunctCh)), Eol>>), trimmed)

(***************************************************************************)
(* TextExtractor.isCodeIdentifier, isUserFacingErrorMessage                *)
(***************************************************************************)
IdentStart == Letter \cup {"_", "$"}
IdentCh == AlphaNum \cup {"_", "$"}
ConstStart == Upper \cup {"_"}
ConstCh == Upper \cup Digit \cup {"_"}
WordDash == WordCh \cup {"-"}
PathCh == WordCh \cup {"/", ".", "-"}
HexCh == Digit \cup CharsOf("abcdefABCDEF")
LowHexCh == Digit \cup CharsOf("abcdef")

reIdentifier == Cat(<<Bol, Set(IdentStart), Star(Set(IdentCh)), Eol>>)
reConstant == Cat(<<Bol, Set(ConstStart), Star(Set(ConstCh)), Eol>>)

CommonWords ==
  <<"error", "warning", "info", "success", "message", "title", "name", "label",
    "button", "link", "text", "content">>

isCodeIdentifier(text) ==
  /\ test(reIdentifier, text)
  /\ ~test(Cat(<<Bol, AltLitI(CommonWords), Eol>>), text)

technicalPatterns ==
  << AltLit(<<"undefined", "null", "NaN", "TypeError", "ReferenceError">>),
     Alt(<<Lit("failed to"), Lit("cannot"),
           Cat(<<Lit("unable to"), Star(Dot), Plus(Set(WordCh)), Lit("()")>>)>>),
     reConstant,
     Alt(<<Cat(<<Plus(Set(WordCh)), Lit("."), Plus(Set(WordCh))>>),
           Cat(<<Plus(Set(WordCh)), Lit("()")>>)>>) >>

MinErrorLen == 10

isUserFacingErrorMessage(text) ==
  /\ ~(\E k \in 1..Len(technicalPatterns) : test(technicalPatterns[k], text))
  /\ Len(text) > MinErrorLen
  /\ test(Cat(<<Set(Lower), Star(Dot), Set(Lower)>>), text)

(***************************************************************************)
(* TextExtractor.isDisplayText                                             *)
(***************************************************************************)
\* a rule list with the identifier rules only
codePatternsIdentifiers == <<reIdentifier, reConstant>>

codePatterns ==
  << Cat(<<Bol, Lit("@"), Plus(Set(WordDash)), Lit("/"), Plus(Set(WordDash)), Eol>>),
     Cat(<<Bol, Plus(Set(WordDash)), Lit("/"), Plus(Set(WordDash)), Eol>>),
     Cat(<<Bol, Lit("http"), Opt(Lit("s")), Lit("://")>>),
     Cat(<<Bol, Lit("ftp://")>>),
     Cat(<<Bol, Lit("file://")>>),
     Cat(<<Bol, Plus(Set(WordCh)), Lit("://")>>),
     Cat(<<Bol, Lit("/"), Star(Set(PathCh)), Eol>>),
     Cat(<<Bol, Lit("."), Opt(Lit(".")), Lit("/"), Star(Set(PathCh)), Eol>>),
     Cat(<<Bol, Set(Letter), Lit(":"), Set({"\\", "/"})>>),
     Cat(<<Bol, Lit("~/")>>),
     Cat(<<Lit("."), AltLitI(<<"js", "ts", "html", "css", "scss", "json", "xml", "yml", "yaml">>), Eol>>),
     Lit("/api/"),
     Lit("/assets/"),
     Cat(<<Bol, Lit("./"), Star(Dot), Lit("."), AltLit(<<"js", "ts", "html", "css">>), Eol>>),
     reIdentifier,
     reConstant,
     Cat(<<Bol, Plus(Set(WordCh)), Lit("."), Plus(Set(WordCh))>>),
     Cat(<<Bol, Lit("app-"), Plus(Set(WordDash)), Eol>>),
     Cat(<<Bol, Lit("{{"), Star(Dot), Lit("}}"), Eol>>),
     Cat(<<Bol, Lit("${"), Star(Dot), Lit("}"), Eol>>),
     Cat(<<Bol, Plus(Set(Digit)), Eol>>),
     Cat(<<Bol, Lit("#"), Plus(Set(HexCh)), Eol>>),
     Cat(<<Bol, Plus(Set(Letter)), Lit(":"), Plus(Set(AlphaNum \cup {"-"})), Eol>>),
     Cat(<<Bol, Plus(Set(WordDash)), Lit("."), Plus(Set(WordDash)), Eol>>),
     Cat(<<Bol, Lit("ng"), Set(Upper)>>),
     Cat(<<AltLit(<<"Component", "Service", "Directive", "Pipe", "Guard", "Resolver", "Module">>), Eol>>),
     Cat(<<Bol, AltLit(<<"app", "src">>), Lit("/")>>),
     Cat(<<Bol, AltLitI(<<"utf-8", "utf8", "ascii", "base64", "json", "xml", "html", "css", "js", "ts">>), Eol>>),
     Cat(<<Bol, AltLit(<<"GET", "POST", "PUT", "DELETE", "PATCH", "HEAD", "OPTIONS">>), Eol>>),
     Cat(<<Bol, AltLit(<<"localhost", "127.0.0.1">>)>>),
     Cat(<<Bol, Plus(Set(Digit)), Lit("."), Plus(Set(Digit)),
           Opt(Cat(<<Lit("."), Plus(Set(Digit))>>))>>),
     Cat(<<Bol, AtLeast(Set(LowHexCh), 8), Eol>>),
     Cat(<<Bol, Lit("."), Plus(Set(WordDash)), Eol>>),
     Cat(<<Bol, Lit("#"), Plus(Set(WordDash)), Eol>>),
     reConstant >>

MinTextLen == 3
MinWordLen == 5

\* the classification context of a candidate: <<>> when absent (null)
NoContext == <<>>
Context(flag) ==
  <<[isImport |-> flag = "import", isRequire |-> flag = "require",
     isDecorator |-> flag = "decorator", isComponentDecorator |-> flag = "componentDecorator",
     isConsole |-> flag = "console", isThrow |-> flag = "throw"]>>

\* a context block that knows import and require targets only
rejectedByContextImports(context) ==
  context # <<>> /\ (context[1].isImport \/ context[1].isRequire)

\* if (context) { isImport || isRequire; isDecorator || isComponentDecorator; isConsole }
rejectedByContext(context) ==
  /\ context # <<>>
  /\ \/ context[1].isImport \/ context[1].isRequire
     \/ context[1].isDecorator \/ context[1].isComponentDecorator
     \/ context[1].isConsole

isDisplayText(text, context) ==
  LET trimmed == trim(text)
  IN  IF test(Cat(<<Bol, Plus(Set(AlphaNum \cup {"_", "."})), Eol>>), trimmed) /\ includes(trimmed, ".")
        THEN FALSE
      ELSE IF \/ test(Cat(<<Bol, Lit("${"), Star(Dot), Lit("}"), Eol>>), trimmed)
              \/ test(Cat(<<Lit("assets/i18n/"), Star(Dot), Lit(".json")>>), trimmed)
        THEN FALSE
      ELSE IF includes(trimmed, "${") /\ includes(trimmed, "}")
        THEN FALSE
      ELSE IF rejectedByContext(context)
        THEN FALSE
      ELSE IF context # <<>> /\ context[1].isThrow
        THEN isUserFacingErrorMessage(trimmed)
      ELSE IF \E k \in 1..Len(codePatterns) : test(codePatterns[k], trimmed)
        THEN FALSE
      ELSE IF Len(trimmed) < MinTextLen
        THEN FALSE
      ELSE IF ~includes(trimmed, " ") /\ Len(trimmed) < MinWordLen /\ isCodeIdentifier(trimmed)
        THEN FALSE
      ELSE TRUE

(***************************************************************************)
(* TextExtractor.containsTranslatableText                                  *)
(***************************************************************************)
\* htmlContent.replace(/<[^>]*>/g, '')
\* (one step per match: the leftmost "<" that a ">" follows, up to the first such ">")
RECURSIVE stripTags(_)
stripTags(s) ==
  LET opens == { i \in 1..Len(s) : Ch(s, i) = "<" /\ \E k \in (i + 1)..Len(s) : Ch(s, k) = ">" }
  IN  IF opens = {} THEN s
      ELSE LET i == CHOOSE o \in opens : \A o2 \in opens : o <= o2
               k == CHOOSE c \in (i + 1)..Len(s) :
                      Ch(s, c) = ">" /\ \A j \in (i + 1)..(c - 1) : Ch(s, j) # ">"
           IN  SubSeq(s, 1, i - 1) \o stripTags(SubSeq(s, k + 1, Len(s)))

\* text.includes("{{ '") && text.includes("' | translate }}")
looksTranslated(text) == includes(text, "{{ '") /\ includes(text, "' | translate }}")

containsTranslatableText(htmlContent) ==
  LET textOnly == trim(stripTags(htmlContent))
  IN  IF looksTranslated(textOnly) THEN FALSE
      ELSE Len(textOnly) > 0 /\ ~isExcluded(textOnly) /\ isDisplayText(textOnly, NoContext)

(***************************************************************************)
(* The markup tree (cheerio).  A document is a table of element nodes in   *)
(* document order; node k is [tag, attribs, children], attribs a sequence  *)
(* of [name, value] and children a sequence of items, an item being a text *)
(* node or a reference to an element node.  top is the item list of the    *)
(* document fragment.                                                      *)
(***************************************************************************)
T(str) == [kind |-> "text", text |-> str, id |-> 0]
E(k) == [kind |-> "elem", text |-> "", id |-> k]
Attr(n, v) == [name |-> n, value |-> v]
Node(t, as, cs) == [tag |-> t, attribs |-> as, children |-> cs]

VoidTags == {"img", "input", "br", "hr"}

\* $el.text(): the concatenated text of all descendant text nodes
RECURSIVE itemsText(_, _)
itemsText(ns, items) ==
  IF items = <<>> THEN ""
  ELSE (IF Head(items).kind = "text" THEN Head(items).text
        ELSE itemsText(ns, ns[Head(items).id].children))
       \o itemsText(ns, Tail(items))

elText(ns, el) == itemsText(ns, ns[el].children)

RECURSIVE attribsHtml(_)
attribsHtml(as) ==
  IF as = <<>> THEN ""
  ELSE " " \o Head(as).name \o "=\"" \o Head(as).value \o "\"" \o attribsHtml(Tail(as))

\* serialisation of an item list ($el.html(), $.html())
RECURSIVE itemsHtml(_, _)
itemsHtml(ns, items) ==
  IF items = <<>> THEN ""
  ELSE LET it == Head(items)
           n == ns[it.id]
       IN  (IF it.kind = "text" THEN it.text
            ELSE "<" \o n.tag \o attribsHtml(n.attribs) \o ">"
                 \o (IF n.tag \in VoidTags THEN ""
                     ELSE itemsHtml(ns, n.children) \o "</" \o n.tag \o ">"))
           \o itemsHtml(ns, Tail(items))

elHtml(ns, el) == itemsHtml(ns, ns[el].children)

\* $el.find('*'): all descendant elements
RECURSIVE itemsElems(_, _)
itemsElems(ns, items) ==
  IF items = <<>> THEN {}
  ELSE (IF Head(items).kind = "elem"
        THEN {Head(items).id} \cup itemsElems(ns, ns[Head(items).id].children)
        ELSE {})
       \cup itemsElems(ns, Tail(items))

find(ns, el) == itemsElems(ns, ns[el].children)

\* $el.attr(name): <<>> when the attribute is absent
attrOf(n, name) ==
  LET hit == { k \in 1..Len(n.attribs) : n.attribs[k].name = name }
  IN  IF hit = {} THEN <<>>
      ELSE <<n.attribs[CHOOSE k \in hit : \A j \in hit : k <= j].value>>

\* $el.attr(name, value)
setAttr(n, name, value) ==
  [n EXCEPT !.attribs =
     [k \in 1..Len(n.attribs) |->
        IF n.attribs[k].name = name THEN Attr(name, value) ELSE n.attribs[k]]]

\* ids of the elements $(tagName) selects, in document order
RECURSIVE idsWithTag(_, _, _)
idsWithTag(ns, tagName, k) ==
  IF k > Len(ns) THEN <<>>
  ELSE (IF ns[k].tag = tagName THEN <<k>> ELSE <<>>) \o idsWithTag(ns, tagName, k + 1)

(***************************************************************************)
(* cheerio.load(content, { xmlMode: false, ... }): the HTML parser.  Tag   *)
(* and attribute names come out in lower case, the slash of a self-closing *)
(* tag is dropped, attribute values and text are kept as written.  The     *)
(* files hold elements, double-quoted attributes and text only.            *)
(***************************************************************************)
\* the first position at or after i where s holds one of the characters cs,
\* Len(s) + 1 when there is none
indexFrom(s, cs, i) ==
  LET hit == { k \in i..Len(s) : Ch(s, k) \in cs }
  IN  IF hit = {} THEN Len(s) + 1 ELSE CHOOSE k \in hit : \A j \in hit : k <= j

\* the attributes of a start tag, from position i to the end of the tag
RECURSIVE parseAttribs(_, _, _)
parseAttribs(s, i, as) ==
  IF i > Len(s) THEN [next |-> i, attribs |-> as]
  ELSE IF Ch(s, i) = ">" THEN [next |-> i + 1, attribs |-> as]
  ELSE IF Ch(s, i) \in Space \cup {"/"} THEN parseAttribs(s, i + 1, as)
  ELSE LET eq == indexFrom(s, {"="}, i)
           close == indexFrom(s, {"\""}, eq + 2)
       IN  parseAttribs(s, close + 1,
                        Append(as, Attr(toLowerCase(SubSeq(s, i, eq - 1)),
                                        SubSeq(s, eq + 2, close - 1))))

\* the items from position i to the end tag that closes them (or to the end
\* of the content), elements numbered in document order after those of ns
RECURSIVE parseItems(_, _, _)
parseItems(s, i, ns) ==
  IF i > Len(s) THEN [next |-> i, nodes |-> ns, items |-> <<>>]
  ELSE IF i < Len(s) /\ SubSeq(s, i, i + 1) = "</"
    THEN [next |-> indexFrom(s, {">"}, i) + 1, nodes |-> ns, items |-> <<>>]
  ELSE IF Ch(s, i) = "<"
    THEN LET e == indexFrom(s, Space \cup {"/", ">"}, i + 1)
             tag == toLowerCase(SubSeq(s, i + 1, e - 1))
             a == parseAttribs(s, e, <<>>)
             id == Len(ns) + 1
             ns1 == Append(ns, Node(tag, a.attribs, <<>>))
             inner == IF tag \in VoidTags
                      THEN [next |-> a.next, nodes |-> ns1, items |-> <<>>]
                      ELSE parseItems(s, a.next, ns1)
             rest == parseItems(s, inner.next,
                                [inner.nodes EXCEPT ![id].children = inner.items])
         IN  [next |-> rest.next, nodes |-> rest.nodes, items |-> <<E(id)>> \o rest.items]
  ELSE LET lt == indexFrom(s, {"<"}, i)
           rest == parseItems(s, lt, ns)
       IN  [next |-> rest.next, nodes |-> rest.nodes,
            items |-> <<T(SubSeq(s, i, lt - 1))>> \o rest.items]

load(content) ==
  LET r == parseItems(content, 1, <<>>)
  IN  [top |-> r.items, nodes |-> r.nodes]

(***************************************************************************)
(* TextExtractor.extractFromHtmlTemplate: the synchronous part between     *)
(* the read and the write-back.                                            *)
(***************************************************************************)
contentElements ==
  <<"button", "a", "label", "h1", "h2", "h3", "h4", "h5", "h6", "p", "li", "td", "th",
    "span", "strong", "em", "b", "i">>
GenericContainers == {"div", "span"}
ContentChildTags == {"p", "li", "h1", "h2", "h3", "h4", "h5", "h6", "button", "label", "a"}
attributes == <<"title", "alt", "placeholder", "aria-label">>

\* a placeholder without the quotes around the key
placeholderBare(key) == "{{ " \o key \o " | translate }}"

\* `{{ '${key}' | translate }}`
placeholder(key) == "{{ '" \o key \o "' | translate }}"

\* Map.prototype.set on the insertion-ordered map, a sequence of [key, value]
mapSet(m, k, v) ==
  IF \E j \in 1..Len(m) : m[j].key = k
  THEN [j \in 1..Len(m) |-> IF m[j].key = k THEN [key |-> k, value |-> v] ELSE m[j]]
  ELSE Append(m, [key |-> k, value |-> v])

\* the (tagName, element) pairs in the order the two nested loops visit them
RECURSIVE visitOrder(_, _)
visitOrder(ns, tags) ==
  IF tags = <<>> THEN <<>>
  ELSE LET ids == idsWithTag(ns, Head(tags), 1)
       IN  [k \in 1..Len(ids) |-> [tagName |-> Head(tags), element |-> ids[k]]]
           \o visitOrder(ns, Tail(tags))

\* Object.keys(attribs).some(attr => ...)
isDirectiveAttr(attr) ==
  \/ startsWith(attr, "*ng")
  \/ startsWith(attr, "[")
  \/ startsWith(attr, "(")
  \/ includes(attr, "{{")
  \/ test(Cat(<<Bol, AltLit(<<"ngIf", "ngFor", "ngClass", "ngStyle", "routerLink">>)>>), attr)

hasAngularDirectives(n) == \E k \in 1..Len(n.attribs) : isDirectiveAttr(n.attribs[k].name)

\* const key = this.generateKey(text); this.extractedTexts.set(key, value)
\* (kind and element only label the entry of the key log)
record(st, prefix, text, value, kind, el) ==
  LET key == generateKey(prefix, st.context, st.keyCounter, text, <<>>)
  IN  [st EXCEPT !.keyCounter = postIncrement(st.keyCounter),
                 !.extractedTexts = mapSet(st.extractedTexts, key, value),
                 !.keyLog = Append(st.keyLog,
                              KeyEntry(key, text, value, kind, el, st.file, st.context,
                                       <<>>, st.keyCounter))]

\* the elements a whole-fragment extraction marks as processed
fragmentMarks(ns, el) == {el} \cup find(ns, el)

\* modifications.push({ element, key, replaceEntireContent }) under replace,
\* and processedElements.add for the marked elements, after an extraction
noteExtraction(st1, opts, el, whole, marks) ==
  [st1 EXCEPT
     !.modifications =
        IF opts.replace
        THEN Append(@, [element |-> el, key |-> st1.keyLog[Len(st1.keyLog)].key,
                        replaceEntireContent |-> whole])
        ELSE @,
     !.processedElements = @ \cup marks]

\* a traversal that skips no text for its markers
holdsMarkersNever(fullText) == FALSE

\* the two skip checks on the markers of the text: a rewritten placeholder,
\* or interpolation
holdsMarkers(fullText) ==
  \/ looksTranslated(fullText)
  \/ includes(fullText, "{{") /\ includes(fullText, "}}")

\* a leaf branch that asks the classifier
leafCandidateDisplay(fullText) == isDisplayText(fullText, NoContext)

\* the test of the leaf branch: !this.isExcluded(fullText)
leafCandidate(fullText) == ~isExcluded(fullText)

\* one iteration of $(tagName).each
visitElement(st, opts, v) ==
  LET ns == st.nodes
      el == v.element
      fullText == trim(elText(ns, el))
      hasChildElements == find(ns, el) # {}
      htmlContent == elHtml(ns, el)
  IN  IF el \in st.processedElements THEN st
      ELSE IF v.tagName \in GenericContainers
              /\ \E d \in find(ns, el) : ns[d].tag \in ContentChildTags THEN st
      ELSE IF fullText = "" \/ isExcluded(fullText) THEN st
      ELSE IF holdsMarkers(fullText) THEN st
      ELSE IF hasAngularDirectives(ns[el]) THEN st
      ELSE IF hasChildElements /\ containsTranslatableText(htmlContent)
        THEN noteExtraction(record(st, opts.keyPrefix, fullText, htmlContent, "fragment", el),
                            opts, el, TRUE, fragmentMarks(ns, el))
      ELSE IF ~hasChildElements
        THEN IF leafCandidate(fullText)
             THEN noteExtraction(record(st, opts.keyPrefix, fullText, fullText, "text", el),
                                 opts, el, FALSE, {el})
             ELSE [st EXCEPT !.processedElements = @ \cup {el}]
      ELSE st

RECURSIVE visitAll(_, _, _)
visitAll(st, opts, vs) ==
  IF vs = <<>> THEN st ELSE visitAll(visitElement(st, opts, Head(vs)), opts, Tail(vs))

\* the check with the interpolation markers only
hasBindingSyntaxCurly(attrValue) ==
  \/ includes(attrValue, "{{")
  \/ includes(attrValue, "}}")

\* attrValue.includes('{{') || ... || attrValue.includes('(')
hasBindingSyntax(attrValue) ==
  \/ includes(attrValue, "{{")
  \/ includes(attrValue, "}}")
  \/ includes(attrValue, "[")
  \/ includes(attrValue, "(")

\* attrValue && attrValue.trim() && !this.isExcluded(attrValue)
attrCandidate(attrValue) ==
  attrValue # "" /\ trim(attrValue) # "" /\ ~isExcluded(attrValue)

\* $el.attr(attr, `{{ '${key}' | translate }}`) under replace
notePlaceholder(st1, opts, el, attr) ==
  IF opts.replace
  THEN [st1 EXCEPT !.nodes[el] =
          setAttr(st1.nodes[el], attr, placeholder(st1.keyLog[Len(st1.keyLog)].key))]
  ELSE st1

\* one iteration of attributes.forEach for one element
visitAttribute(st, opts, el, attr) ==
  LET found == attrOf(st.nodes[el], attr)
  IN  IF found = <<>> THEN st
      ELSE IF ~attrCandidate(found[1]) THEN st
      ELSE IF hasBindingSyntax(found[1]) THEN st
      ELSE notePlaceholder(record(st, opts.keyPrefix, found[1], found[1], attr, el),
                           opts, el, attr)

\* $('*').each(... attributes.forEach ...): elements in document order,
\* the four attributes in list order for each
RECURSIVE visitAttributes(_, _, _, _)
visitAttributes(st, opts, el, a) ==
  IF el > Len(st.nodes) THEN st
  ELSE IF a > Len(attributes) THEN visitAttributes(st, opts, el + 1, 1)
  ELSE visitAttributes(visitAttribute(st, opts, el, attributes[a]), opts, el, a + 1)

\* mod.element.html(placeholder) / mod.element.text(placeholder)
RECURSIVE applyModifications(_, _)
applyModifications(ns, mods) ==
  IF mods = <<>> THEN ns
  ELSE applyModifications(
         [ns EXCEPT ![Head(mods).element].children = <<T(placeholder(Head(mods).key))>>],
         Tail(mods))

\* String.prototype.replace(/pat/g, rep) for a literal pattern
\* (one step per occurrence, leftmost first)
RECURSIVE replaceAll(_, _, _)
replaceAll(s, pat, rep) ==
  LET occ == { i \in 1..(Len(s) - Len(pat) + 1) : SubSeq(s, i, i + Len(pat) - 1) = pat }
  IN  IF occ = {} THEN s
      ELSE LET i == CHOOSE o \in occ : \A o2 \in occ : o <= o2
           IN  SubSeq(s, 1, i - 1) \o rep
               \o replaceAll(SubSeq(s, i + Len(pat), Len(s)), pat, rep)

DirectiveCase ==
  << <<"*ngif=", "*ngIf=">>, <<"*ngfor=", "*ngFor=">>, <<"*ngswitch=", "*ngSwitch=">>,
     <<"[ngclass]=", "[ngClass]=">>, <<"[ngstyle]=", "[ngStyle]=">>,
     <<"routerlink=", "routerLink=">>, <<"[routerlink]=", "[routerLink]=">> >>

RECURSIVE restoreDirectiveCase(_, _)
restoreDirectiveCase(html, k) ==
  IF k > Len(DirectiveCase) THEN html
  ELSE restoreDirectiveCase(replaceAll(html, DirectiveCase[k][1], DirectiveCase[k][2]), k + 1)

\* the content handed to fs.writeFile
modifiedHtml(doc, st) ==
  restoreDirectiveCase(itemsHtml(applyModifications(st.nodes, st.modifications), doc.top), 1)

\* the traversal of one document, from the session state at its start
extractDocument(doc, opts, file, context, counter, texts, log) ==
  LET st0 == [nodes |-> doc.nodes, file |-> file, context |-> context,
              keyCounter |-> counter, extractedTexts |-> texts, keyLog |-> log,
              modifications |-> <<>>, processedElements |-> {}]
      st1 == visitAll(st0, opts, visitOrder(doc.nodes, contentElements))
  IN  visitAttributes(st1, opts, 1, 1)

(***************************************************************************)
(* The files of the source directory: the names the glob can return and    *)
(* the content of each.                                                    *)
(***************************************************************************)
DocHome == "<h1>Welcome to our app</h1>"

DocAbout == "<p>This is <strong>important</strong> information</p>"

DocNav == "<p>Click <a title=\"Go (now)\">here</a> now</p>"

DocLogo ==
  "<img alt=\"Company logo\" title=\"userId\">"
  \o "<input placeholder=\"{{ hint }}\" aria-label=\"!!!\">"

DocEmpty == "<div><span>42</span></div>"

DocForm ==
  "<button (click)=\"save()\">Save</button>"
  \o "<label title=\"Welcome to our app\">Welcome to our app</label>"

DocCard ==
  "<div>Read the notes</div><p class=\"{{ tone }}\">Hello world</p><hr />"

\* the markup files a source directory can hold, in directory-listing order
FileNames ==
  <<"about.component.html", "app-nav.component.html", "card.component.html",
    "empty.component.html", "home.component.html", "logo.html",
    "user-form.component.html">>

\* the logic files a source directory can hold
\* (home.component.ts holds  title = 'Welcome to our app';)
LogicFileNames == <<"home.component.ts">>

\* the content of a file before the tool has run
sourceOf(fullPath) ==
  LET f == basename1(fullPath)
  IN  CASE f = "home.component.html" -> DocHome
        [] f = "about.component.html" -> DocAbout
        [] f = "app-nav.component.html" -> DocNav
        [] f = "logo.html" -> DocLogo
        [] f = "empty.component.html" -> DocEmpty
        [] f = "user-form.component.html" -> DocForm
        [] f = "card.component.html" -> DocCard

\* the tree cheerio.load builds from that content
contentOf(fullPath) == load(sourceOf(fullPath))

\* the longest list of markup files the glob returns
MaxFiles == 2

\* the lists of at most n of the names, in listing order
RECURSIVE Listings(_, _, _)
Listings(names, from, n) ==
  IF n = 0 \/ from > Len(names) THEN {<<>>}
  ELSE Listings(names, from + 1, n)
       \cup { <<names[from]>> \o q : q \in Listings(names, from + 1, n - 1) }

SrcPath == "/src/app"

\* the full paths of the markup files
SourceFiles == { pathJoin(SrcPath, FileNames[k]) : k \in 1..Len(FileNames) }

KeyPrefixes == {"app", "test"}
Locales == {"en", "es"}
OutputPath == "/out/i18n/messages.json"
IoErrors == {"ENOENT: no such file or directory", "EACCES: permission denied"}

(***************************************************************************)
(* State.                                                                  *)
(***************************************************************************)
VARIABLES
  options,                  \* the options object handed to the constructor
  htmlFiles,                \* what glob.sync('**/*.html') returns
  tsFiles,                  \* the logic files (*.ts) of the source directory
  extractedTexts,           \* this.extractedTexts, in insertion order
  keyCounter,               \* this.keyCounter
  currentComponentContext,  \* this.currentComponentContext, <<>> for null
  pc,                       \* where the run is suspended
  fileIdx,                  \* position of the for..of loop over htmlFiles
  pending,                  \* content computed for the write-back in progress
  fsReads,                  \* the fs.readFile calls, in call order
  fsWrites,                 \* what the resolved fs.writeFile calls wrote, in call order
  fsAttempts,               \* all fs.writeFile calls, in call order
  mkdirs,                   \* the fs.mkdir calls
  console,                  \* console.log / warn / error lines
  exitCode,                 \* <<>> until process.exit(code)
  keyLog,                   \* every key generateKey has returned, in call order
  verdicts,                 \* every isDisplayText call with its result, in call order
  peer,                     \* a second TextExtractor built from the same options
  disk,                     \* the content of each markup file of the source directory
  history                   \* the key logs of the runs that have ended, oldest first

vars == <<options, htmlFiles, tsFiles, extractedTexts, keyCounter, currentComponentContext, pc,
          fileIdx, pending, fsReads, fsWrites, fsAttempts, mkdirs, console, exitCode, keyLog,
          verdicts, peer, disk, history>>

session == <<extractedTexts, keyCounter, currentComponentContext, keyLog>>
input == <<options, htmlFiles, tsFiles>>
io == <<fsReads, fsWrites, fsAttempts, mkdirs, console, exitCode>>
aux == <<verdicts, peer, disk, history>>

Line(level, a, b) == [level |-> level, text |-> a, detail |-> b]
\* a settled fs call: error is <<>> when it resolved, <<message>> when it rejected
Call(path, error) == [path |-> path, error |-> error]
HtmlWrite(path, data) == [path |-> path, html |-> <<data>>, json |-> <<>>]
JsonWrite(path, data) == [path |-> path, html |-> <<>>, json |-> <<data>>]

\* TextExtractor constructor
InitialCounter == 1

\* a context that is set for the first file only
setComponentContextOnce(current, filePath) ==
  IF current = <<>> THEN <<extractComponentName(filePath)>> ELSE current

\* this.currentComponentContext = this.extractComponentName(filePath)
setComponentContext(current, filePath) == <<extractComponentName(filePath)>>

\* the fields of a freshly constructed instance (and its place in the file loop)
newSession ==
  [extractedTexts |-> <<>>, keyCounter |-> InitialCounter,
   currentComponentContext |-> <<>>, keyLog |-> <<>>, fileIdx |-> 1]

SessionInit ==
  /\ extractedTexts = <<>>
  /\ keyCounter = InitialCounter
  /\ currentComponentContext = <<>>
  /\ keyLog = <<>>
  /\ peer = newSession

IoInit ==
  /\ fsReads = <<>>
  /\ fsWrites = <<>>
  /\ fsAttempts = <<>>
  /\ mkdirs = <<>>
  /\ console = <<>>
  /\ exitCode = <<>>
  /\ pending = <<>>
  /\ fileIdx = 1
  /\ verdicts = <<>>
  /\ history = <<>>
  /\ disk = [fullPath \in SourceFiles |-> sourceOf(fullPath)]

\* the command line, parsed (bin/cli.js), and the source directory
Init ==
  /\ options \in [srcPath : {SrcPath}, outputPath : {OutputPath}, locale : Locales,
                  keyPrefix : KeyPrefixes, replace : BOOLEAN, excludeTs : {FALSE}]
  /\ htmlFiles \in Listings(FileNames, 1, MaxFiles)
  /\ tsFiles \in Listings(LogicFileNames, 1, MaxFiles)
  /\ pc = "cli"
  /\ SessionInit
  /\ IoInit

(***************************************************************************)
(* bin/cli.js action handler up to the call of extractTexts, then          *)
(* extractTexts and extractFromDirectory up to the first await.            *)
(***************************************************************************)
CliStart ==
  /\ pc = "cli"
  /\ pc' = "files"
  /\ console' = console \o
       << Line("log", "Extracting texts from:", options.srcPath),
          Line("log", "Found HTML files:", Dec(Len(htmlFiles))) >>
  /\ UNCHANGED <<aux, input, session, fileIdx, pending, fsReads, fsWrites,
                 fsAttempts, mkdirs, exitCode>>

fullPathAt(k) == pathJoin(options.srcPath, htmlFiles[k])

\* a write-back that no option guards
writesBackAlways(opts) == TRUE

\* this.options.replace guards the write-back
writesBack(opts) == opts.replace

\* a loop that starts the next file while a write-back is in flight
awaitedLoosely(p) == p \in {"files", "writeBack"}

\* for (const file of htmlFiles) { await this.extractFromHtmlTemplate(...) }:
\* the next call is made when the one before has settled
awaited(p) == p = "files"

(***************************************************************************)
(* extractFromHtmlTemplate, from its call to the await of the write-back   *)
(* (or to its return when nothing is written).                             *)
(***************************************************************************)
ReadFileOk ==
  /\ awaited(pc)
  /\ fileIdx <= Len(htmlFiles)
  /\ \E filePath \in {fullPathAt(fileIdx)} :
     \E context \in {setComponentContext(currentComponentContext, filePath)},
        doc \in {load(disk[filePath])} :
     \E st \in {extractDocument(doc, options, filePath, context, keyCounter,
                                extractedTexts, keyLog)} :
         /\ currentComponentContext' = context
         /\ fsReads' = Append(fsReads, Call(filePath, <<>>))
         /\ extractedTexts' = st.extractedTexts
         /\ keyCounter' = st.keyCounter
         /\ keyLog' = st.keyLog
         /\ IF writesBack(options)
            THEN /\ pending' = <<modifiedHtml(doc, st)>>
                 /\ pc' = "writeBack"
                 /\ fileIdx' = fileIdx
            ELSE /\ pending' = <<>>
                 /\ pc' = "files"
                 /\ fileIdx' = fileIdx + 1
  /\ UNCHANGED <<aux, input, fsWrites, fsAttempts, mkdirs, console, exitCode>>

\* a warning that leaves the error message out
warnHtmlNoMessage(filePath, message) ==
  Line("warn", "Warning: Could not process HTML template " \o filePath \o ":", "")

\* the catch block of extractFromHtmlTemplate
warnHtml(filePath, message) ==
  Line("warn", "Warning: Could not process HTML template " \o filePath \o ":", message)

\* a rejected read that has used up a counter value
ReadFileFailCounting ==
  /\ awaited(pc)
  /\ fileIdx <= Len(htmlFiles)
  /\ \E message \in IoErrors :
       LET filePath == fullPathAt(fileIdx)
       IN  /\ currentComponentContext' = setComponentContext(currentComponentContext, filePath)
           /\ fsReads' = Append(fsReads, Call(filePath, <<message>>))
           /\ console' = Append(console, warnHtml(filePath, message))
  /\ fileIdx' = fileIdx + 1
  /\ keyCounter' = postIncrement(keyCounter)
  /\ UNCHANGED <<aux, input, extractedTexts, keyLog, pc, pending,
                 fsWrites, fsAttempts, mkdirs, exitCode>>

\* fs.readFile rejects
ReadFileFail ==
  /\ awaited(pc)
  /\ fileIdx <= Len(htmlFiles)
  /\ \E message \in IoErrors :
       LET filePath == fullPathAt(fileIdx)
       IN  /\ currentComponentContext' = setComponentContext(currentComponentContext, filePath)
           /\ fsReads' = Append(fsReads, Call(filePath, <<message>>))
           /\ console' = Append(console, warnHtml(filePath, message))
  /\ fileIdx' = fileIdx + 1
  /\ UNCHANGED <<aux, input, extractedTexts, keyCounter, keyLog, pc, pending,
                 fsWrites, fsAttempts, mkdirs, exitCode>>

\* fs.writeFile(filePath, modifiedHtml) resolves
WriteBackOk ==
  /\ pc = "writeBack"
  /\ fsWrites' = Append(fsWrites, HtmlWrite(fullPathAt(fileIdx), pending[1]))
  /\ fsAttempts' = Append(fsAttempts, Call(fullPathAt(fileIdx), <<>>))
  /\ pending' = <<>>
  /\ pc' = "files"
  /\ fileIdx' = fileIdx + 1
  /\ disk' = [disk EXCEPT ![fullPathAt(fileIdx)] = pending[1]]
  /\ UNCHANGED <<verdicts, peer, history, input, session, fsReads, mkdirs, console,
                 exitCode>>

\* fs.writeFile(filePath, modifiedHtml) rejects
WriteBackFail ==
  /\ pc = "writeBack"
  /\ \E message \in IoErrors :
       /\ console' = Append(console, warnHtml(fullPathAt(fileIdx), message))
       /\ fsAttempts' = Append(fsAttempts, Call(fullPathAt(fileIdx), <<message>>))
  /\ pending' = <<>>
  /\ pc' = "files"
  /\ fileIdx' = fileIdx + 1
  /\ UNCHANGED <<aux, input, session, fsReads, fsWrites, mkdirs, exitCode>>

(***************************************************************************)
(* saveToJSON, and the return to (or the catch block of) bin/cli.js.       *)
(***************************************************************************)
\* this.extractedTexts.forEach((value, key) => { translations[key] = value })
RECURSIVE translationsOf(_, _)
translationsOf(m, k) ==
  IF k = 0 THEN <<>> ELSE mapSet(translationsOf(m, k - 1), m[k].key, m[k].value)

\* an output object that counts with the key counter
outputOfByCounter(opts, m) ==
  [locale |-> opts.locale,
   translations |-> translationsOf(m, Len(m)),
   metadata |-> [totalTexts |-> keyCounter, keyPrefix |-> opts.keyPrefix]]

\* the output object (extractedAt, the time of the call, is left out)
outputOf(opts, m) ==
  [locale |-> opts.locale,
   translations |-> translationsOf(m, Len(m)),
   metadata |-> [totalTexts |-> Len(m), keyPrefix |-> opts.keyPrefix]]

\* a handler that swallows the error and reports success
cliSwallows(message) ==
  /\ console' = console \o
       << Line("warn", "Error during extraction:", message),
          Line("log", "Text extraction completed successfully!", "") >>
  /\ exitCode' = exitCode
  /\ pc' = "done"

\* the catch block of the action handler
cliFails(message) ==
  /\ console' = Append(console, Line("error", "Error during extraction:", message))
  /\ exitCode' = <<1>>
  /\ pc' = "exited"

\* fs.mkdir(outputDir, { recursive: true }) resolves
MkdirOk ==
  /\ pc = "files"
  /\ fileIdx > Len(htmlFiles)
  /\ mkdirs' = Append(mkdirs, Call(dirname(options.outputPath), <<>>))
  /\ pc' = "writeJSON"
  /\ UNCHANGED <<aux, input, session, fileIdx, pending, fsReads, fsWrites,
                 fsAttempts, console, exitCode>>

\* fs.mkdir rejects: the rejection leaves saveToJSON and extractTexts
MkdirFail ==
  /\ pc = "files"
  /\ fileIdx > Len(htmlFiles)
  /\ \E message \in IoErrors :
       /\ mkdirs' = Append(mkdirs, Call(dirname(options.outputPath), <<message>>))
       /\ cliFails(message)
  /\ UNCHANGED <<aux, input, session, fileIdx, pending, fsReads, fsWrites, fsAttempts>>

\* fs.writeFile(outputPath, JSON) resolves; saveToJSON and extractTexts return
WriteJSONOk ==
  /\ pc = "writeJSON"
  /\ fsWrites' = Append(fsWrites, JsonWrite(options.outputPath, outputOf(options, extractedTexts)))
  /\ fsAttempts' = Append(fsAttempts, Call(options.outputPath, <<>>))
  /\ console' = console \o
       << Line("log", "Saved translations to " \o options.outputPath, Dec(Len(extractedTexts))),
          Line("log", "Text extraction completed successfully!", "") >>
  /\ pc' = "done"
  /\ UNCHANGED <<aux, input, session, fileIdx, pending, fsReads, mkdirs, exitCode>>

\* fs.writeFile(outputPath, JSON) rejects
WriteJSONFail ==
  /\ pc = "writeJSON"
  /\ \E message \in IoErrors :
       /\ fsAttempts' = Append(fsAttempts, Call(options.outputPath, <<message>>))
       /\ cliFails(message)
  /\ UNCHANGED <<aux, input, session, fileIdx, pending, fsReads, fsWrites, mkdirs>>

Next ==
  \/ CliStart
  \/ ReadFileOk
  \/ ReadFileFail
  \/ WriteBackOk
  \/ WriteBackFail
  \/ MkdirOk
  \/ MkdirFail
  \/ WriteJSONOk
  \/ WriteJSONFail

Spec == Init /\ [][Next]_vars

(***************************************************************************)
(* The session driven through its methods, as the unit tests drive it:     *)
(* setComponentContext and generateKey called in any order.                *)
(***************************************************************************)
\* the most generateKey and isDisplayText calls made on one session
MaxCalls == 3

ApiTexts == {"Save", "  Save - now! ", "This is a very long text that should be truncated"}
ApiPaths == {"/path/to/login.component.html", "/path/to/app-user-profile.component.html"}
ApiFileArgs == {<<>>, <<"/path/to/custom.component.html">>}

KeyInit ==
  /\ options \in [srcPath : {SrcPath}, outputPath : {OutputPath}, locale : {"en"},
                  keyPrefix : KeyPrefixes, replace : {FALSE}, excludeTs : {FALSE}]
  /\ htmlFiles = <<>>
  /\ tsFiles = <<>>
  /\ pc = "api"
  /\ SessionInit
  /\ IoInit

\* extractor.setComponentContext(filePath)
SetComponentContext ==
  /\ pc = "api"
  /\ \E filePath \in ApiPaths :
       currentComponentContext' = setComponentContext(currentComponentContext, filePath)
  /\ UNCHANGED <<aux, input, extractedTexts, keyCounter, keyLog, pc, fileIdx, pending, io>>

\* extractor.generateKey(text, filePath)
GenerateKey ==
  /\ pc = "api"
  /\ Len(keyLog) + Len(verdicts) < MaxCalls
  /\ \E text \in ApiTexts, filePath \in ApiFileArgs :
       LET key == generateKey(options.keyPrefix, currentComponentContext, keyCounter,
                              text, filePath)
       IN  keyLog' = Append(keyLog, KeyEntry(key, text, "", "api", 0, "",
                                             currentComponentContext, filePath, keyCounter))
  /\ keyCounter' = postIncrement(keyCounter)
  /\ UNCHANGED <<aux, input, extractedTexts, currentComponentContext, pc, fileIdx, pending, io>>

KeyNext == SetComponentContext \/ GenerateKey

KeySpec == KeyInit /\ [][KeyNext]_vars

(***************************************************************************)
(* The classifier called on a session between its other methods.           *)
(***************************************************************************)
\* the most isDisplayText calls made on one session
MaxChecks == 2

ClassifyTexts ==
  {"https://api.example.com", "userId", "#ffffff", "GET", "1.2.3",
   "Welcome to our application", "Click here to continue"}
ClassifyContexts == {NoContext, Context("throw")}

\* an entry of the call log: the arguments, the returned value, and the
\* session's key counter at the call
Verdict(text, context, result) ==
  [text |-> text, context |-> context, result |-> result, counter |-> keyCounter]

ClassifyInit == KeyInit /\ options.keyPrefix = "app"

\* a classifier that counts its calls with the key counter and accepts
\* nothing after the first
IsDisplayTextCounting ==
  /\ pc = "api"
  /\ Len(verdicts) < MaxChecks
  /\ Len(keyLog) + Len(verdicts) < MaxCalls
  /\ \E text \in ClassifyTexts, context \in ClassifyContexts :
       verdicts' = Append(verdicts,
                     Verdict(text, context, isDisplayText(text, context) /\ keyCounter < 2))
  /\ keyCounter' = postIncrement(keyCounter)
  /\ UNCHANGED <<input, extractedTexts, currentComponentContext, keyLog, pc, fileIdx,
                 pending, io, peer, disk, history>>

\* extractor.isDisplayText(text, context)
IsDisplayText ==
  /\ pc = "api"
  /\ Len(verdicts) < MaxChecks
  /\ Len(keyLog) + Len(verdicts) < MaxCalls
  /\ \E text \in ClassifyTexts, context \in ClassifyContexts :
       verdicts' = Append(verdicts, Verdict(text, context, isDisplayText(text, context)))
  /\ UNCHANGED <<input, session, pc, fileIdx, pending, io, peer, disk, history>>

\* generateKey called with one text and no file path
GenerateKeyForSave ==
  /\ GenerateKey
  /\ keyLog'[Len(keyLog')].text = "Save"
  /\ keyLog'[Len(keyLog')].filePath = <<>>

ClassifyNext == IsDisplayText \/ SetComponentContext \/ GenerateKeyForSave

ClassifySpec == ClassifyInit /\ [][ClassifyNext]_vars

(***************************************************************************)
(* The classifier as a function of its arguments: one call on a fresh      *)
(* session, the candidate and its context drawn from the shapes the        *)
(* classifier tells apart.                                                 *)
(***************************************************************************)
\* the most isDisplayText calls made on one fresh session
MaxCandidates == 1

CandidateTexts ==
  {"", "a", "42", "!!!", "---", " ? ",
   "Welcome to our application", "Please enter a valid email address",
   "You cannot delete this item", "TypeError: Cannot read property",
   "failed to connect()", "INVALID_CREDENTIALS", "Try again",
   "userProfileData", "primary-button", "color:red", "font-size:12px"}

ContextFlags == {"none", "import", "require", "decorator", "componentDecorator", "console", "throw"}
CandidateContexts == {NoContext} \cup { Context(flag) : flag \in ContextFlags }

\* extractor.isDisplayText(text, context) on a fresh session
ClassifyCandidate ==
  /\ pc = "api"
  /\ Len(verdicts) < MaxCandidates
  /\ \E text \in CandidateTexts, context \in CandidateContexts :
       verdicts' = Append(verdicts, Verdict(text, context, isDisplayText(text, context)))
  /\ UNCHANGED <<input, session, pc, fileIdx, pending, io, peer, disk, history>>

CandidateNext == ClassifyCandidate

CandidateSpec == ClassifyInit /\ [][CandidateNext]_vars

(***************************************************************************)
(* Component logic files (the session of src/unnamed/part_006, lines 461   *)
(* to 1405, which has extractFromTypeScriptFile).  Indices of this section *)
(* are those of JavaScript: the first character of a string is at 0.       *)
(***************************************************************************)
Min2(a, b) == IF a < b THEN a ELSE b
Max2(a, b) == IF a < b THEN b ELSE a
Least(S) == CHOOSE x \in S : \A y \in S : x <= y
Greatest(S) == CHOOSE x \in S : \A y \in S : y <= x
LeastOr(S, none) == IF S = {} THEN none ELSE Least(S)
GreatestOr(S, none) == IF S = {} THEN none ELSE Greatest(S)

\* String.prototype.substring(start, end): each argument is clamped to
\* 0..length and the two are swapped when start > end
clamp(s, n) == Max2(0, Min2(n, Len(s)))
span(s, a, b) == SubSeq(s, Min2(a, b) + 1, Max2(a, b))
substring(s, start, end) == span(s, clamp(s, start), clamp(s, end))

\* String.prototype.indexOf(pat, from), -1 when there is no occurrence
indexOf(s, pat, from) ==
  LeastOr({ k \in Max2(0, from)..(Len(s) - Len(pat)) : SubSeq(s, k + 1, k + Len(pat)) = pat },
          -1)

\* String.prototype.lastIndexOf(pat, from), -1 when there is no occurrence
lastIndexOfFrom(s, pat, from) ==
  GreatestOr({ k \in 0..Min2(from, Len(s) - Len(pat)) : SubSeq(s, k + 1, k + Len(pat)) = pat },
             -1)

\* the string with the n characters at index i replaced, unchanged when i is -1
replaceAt(s, i, n, rep) ==
  IF i = -1 THEN s ELSE substring(s, 0, i) \o rep \o substring(s, i + n, Len(s))

\* String.prototype.replace(pat, rep) for a string pattern: the first
\* occurrence only (rep holds no $ pattern)
replaceFirst(s, pat, rep) == replaceAt(s, indexOf(s, pat, 0), Len(pat), rep)

\* of the ends a match from one index can have, a pattern of greedy
\* quantifiers takes the last and one whose open quantifier is lazy the first
matchFrom(i, ends, lazy) == <<i - 1, (IF lazy THEN Least(ends) ELSE Greatest(ends)) - 1>>
matchAt(re, s, i, lazy) == matchFrom(i, Ends(re, s, i), lazy)
firstMatch(re, s, starts, lazy) ==
  IF starts = {} THEN <<>> ELSE matchAt(re, s, Least(starts), lazy)

\* RegExp.prototype.exec with lastIndex = from: the leftmost match at or
\* after from as <<index, end>>, <<>> when there is none
execFrom(re, s, from, lazy) ==
  firstMatch(re, s, { i \in (from + 1)..(Len(s) + 1) : Ends(re, s, i) # {} }, lazy)

\* while ((match = pattern.exec(content)) !== null) for a /g pattern
RECURSIVE execAll(_, _, _)
RECURSIVE execMore(_, _, _)
execMore(re, s, m) ==
  IF m = <<>> THEN <<>>
  ELSE <<m>> \o execAll(re, s, IF m[2] = m[1] THEN m[2] + 1 ELSE m[2])

execAll(re, s, from) == execMore(re, s, execFrom(re, s, from, FALSE))

\* /'([^'\\]|\\.)*'/g, and the same with the double quote; the body is
\* written as ([^'\\]*(\\.)?)*, which matches the same strings and takes a
\* run of plain characters in one step
quoted(q) ==
  Cat(<<Lit(q), Star(Cat(<<Star(NotSet({q, "\\"})), Opt(Cat(<<Lit("\\"), Dot>>))>>)), Lit(q)>>)

\* the patterns of the quoted strings; the third pattern, of the template
\* literals, finds nothing in a file without a back quote, which is every
\* file here
stringPatterns == <<quoted("'"), quoted("\"")>>

\* position is after a // of its line
\* (content.indexOf('\n', position) || content.length: -1 is truthy)
lineAround(content, lastLineStart, nextNewline) ==
  substring(content, lastLineStart + 1, IF nextNewline = 0 THEN Len(content) ELSE nextNewline)

afterLineComment(position, lastLineStart, commentIndex) ==
  commentIndex # -1 /\ position - lastLineStart - 1 > commentIndex

isInLineComment(content, position, lastLineStart) ==
  afterLineComment(position, lastLineStart,
                   indexOf(lineAround(content, lastLineStart, indexOf(content, "\n", position)),
                           "//", 0))

\* position is between a /* before it and the */ that follows that /*
\* (the loop goes through the /* of beforePosition)
closesAfter(position, correspondingEnd) ==
  correspondingEnd # -1 /\ position < correspondingEnd

isInBlockComment(content, position) ==
  \E nextStart \in 0..(position - 2) :
    /\ substring(content, nextStart, nextStart + 2) = "/*"
    /\ closesAfter(position, indexOf(content, "*/", nextStart + 2))

\* TextExtractor.isInComment
isInComment(content, position) ==
  \/ isInLineComment(content, position,
                     lastIndexOfFrom(substring(content, 0, position), "\n", position))
  \/ isInBlockComment(content, position)

BeforeContextLen == 200
LargerContextLen == 500
LastFewLines == 5

SpaceRun == Star(Set(Space))
WordRun == Plus(Set(WordCh))
\* \([^)]*\)
Parameters == Cat(<<Lit("("), Star(NotSet({")"})), Lit(")")>>)
\* \s*\(\s*$
OpensCall == <<SpaceRun, Lit("("), SpaceRun, Eol>>
\* \w+\s*[:=]\s*$
Assigns == <<WordRun, SpaceRun, Set({":", "="}), SpaceRun, Eol>>

\* the openings less the closings among the characters at the indices from..to
nesting(text, from, to, opening, closing) ==
  Cardinality({ k \in from..to : Ch(text, k + 1) = opening })
  - Cardinality({ k \in from..to : Ch(text, k + 1) = closing })

\* the position after the parenthesis that closes the one before pos, the
\* length of the context when none does:
\* while (pos < context.length && parenCount > 0) { ...; pos++ }
closingParen(context, pos) ==
  LeastOr({ p \in (pos + 1)..Len(context) : 1 + nesting(context, pos, p - 1, "(", ")") = 0 },
          Max2(pos, Len(context)))

decoratorPattern ==
  Cat(<<Lit("@"), AltLit(<<"Component", "Injectable", "Directive", "Pipe", "NgModule">>),
        SpaceRun, Lit("(")>>)

withinDecorator(context, stringIndex, decoratorStart, pos) ==
  /\ stringIndex >= decoratorStart + Len(context) - LargerContextLen
  /\ stringIndex <= pos + Len(context) - LargerContextLen

withinOneOf(context, stringIndex, matches) ==
  \E k \in 1..Len(matches) :
    withinDecorator(context, stringIndex, matches[k][1],
                    closingParen(context, matches[k][2]))

\* TextExtractor.isInComponentDecorator
isInComponentDecorator(context, stringIndex) ==
  withinOneOf(context, stringIndex, execAll(decoratorPattern, context, 0))

\* lines.slice(-5).join('\n') of beforeContext.split('\n')
linesAfter(text, newlines) ==
  IF Cardinality(newlines) < LastFewLines THEN text
  ELSE substring(text,
                 (CHOOSE i \in newlines :
                    Cardinality({ j \in newlines : j >= i }) = LastFewLines) + 1,
                 Len(text))

lastFewLines(beforeContext) ==
  linesAfter(beforeContext,
             { i \in 0..(Len(beforeContext) - 1) : Ch(beforeContext, i + 1) = "\n" })

assignsAtEnd(text) ==
  \/ test(Cat(<<Bol, SpaceRun, Opt(AltLit(<<"private", "public", "protected", "readonly">>)),
                SpaceRun>> \o Assigns), text)
  \/ test(Cat(<<Bol, SpaceRun>> \o Assigns), text)

\* TextExtractor.isClassLevelProperty
isClassLevelProperty(beforeContext) == assignsAtEnd(lastFewLines(beforeContext))

methodPatterns ==
  << Cat(<<WordRun, SpaceRun, Parameters, SpaceRun, Lit(":"), SpaceRun, WordRun, SpaceRun, Lit("{")>>),
     Cat(<<WordRun, SpaceRun, Parameters, SpaceRun, Lit("{")>>),
     Cat(<<Lit("constructor"), SpaceRun, Parameters, SpaceRun, Lit("{")>>),
     Cat(<<Lit("="), SpaceRun, Parameters, SpaceRun, Lit("=>"), SpaceRun, Lit("{")>>),
     Cat(<<Lit("function"), Plus(Set(Space)), WordRun, SpaceRun, Parameters, SpaceRun, Lit("{")>>) >>

\* whether the braces after a method's opening one are balanced before the
\* text ends: the loop of isInsideMethod that returns false at count 0
leavesMethod(afterMethod) ==
  \E i \in 0..(Len(afterMethod) - 1) : 1 + nesting(afterMethod, 0, i, "{", "}") = 0

matchEnds(matches) == { matches[k][2] : k \in 1..Len(matches) }

\* methodStart is the greatest end of a match of a method pattern
insideFrom(context, startPos) ==
  /\ startPos # {}
  /\ ~leavesMethod(substring(context, Greatest(startPos), Len(context)))

\* TextExtractor.isInsideMethod
isInsideMethod(context) ==
  insideFrom(context,
             UNION { matchEnds(execAll(methodPatterns[p], context, 0)) :
                       p \in 1..Len(methodPatterns) })

\* the fields of the context that isDisplayText and the rewrite read
contextFrom(line, beforeContext, largerContext, stringIndex) ==
  [beforeContext |-> toLowerCase(beforeContext),
   isImport |-> test(Cat(<<Bol, SpaceRun, Lit("import"), Plus(Set(Space))>>), line),
   isRequire |-> test(Cat(<<Lit("require")>> \o OpensCall), beforeContext),
   isDecorator |->
     \/ test(Cat(<<Lit("@"), WordRun>> \o OpensCall), beforeContext)
     \/ test(Cat(<<Lit("@"), WordRun, SpaceRun, Lit("("), SpaceRun, Lit("{"), SpaceRun,
                   Star(Set(WordCh \cup Space \cup {":", ",", "'", "\""})), Eol>>),
             beforeContext),
   isComponentDecorator |-> isInComponentDecorator(largerContext, stringIndex),
   isClassProperty |-> isClassLevelProperty(beforeContext),
   isProperty |-> test(Cat(<<WordRun, SpaceRun, Lit(":"), SpaceRun, Eol>>), beforeContext),
   isArray |-> \/ test(Cat(<<Lit("["), SpaceRun, Eol>>), beforeContext)
               \/ test(Cat(<<Lit(","), SpaceRun, Eol>>), beforeContext),
   isThrow |-> test(Cat(<<Lit("throw"), Plus(Set(Space)), Lit("new"), Plus(Set(Space)),
                          WordRun>> \o OpensCall), beforeContext),
   isConsole |-> test(Cat(<<Lit("console."), WordRun>> \o OpensCall), beforeContext),
   isInMethod |-> isInsideMethod(largerContext)]

lineOf(content, lineStart, lineEnd) ==
  trim(substring(content, lineStart, IF lineEnd = -1 THEN Len(content) ELSE lineEnd))

\* TextExtractor.getStringContext
getStringContext(content, stringIndex) ==
  contextFrom(lineOf(content, lastIndexOfFrom(content, "\n", stringIndex) + 1,
                     indexOf(content, "\n", stringIndex)),
              substring(content, Max2(0, stringIndex - BeforeContextLen), stringIndex),
              substring(content, Max2(0, stringIndex - LargerContextLen), stringIndex),
              stringIndex)

MaxSingleWordLen == 25
MinUserFacingLen == 5

\* TextExtractor.isLikelyUserFacingContent
userFacingPatterns ==
  << AltLitI(<<"welcome", "hello", "thank you", "please", "error", "warning", "success", "message">>),
     AltLitI(<<"click", "button", "save", "cancel", "submit", "login", "logout">>),
     AltLitI(<<"your", "you", "we", "our", "this", "that", "here", "there">>),
     Cat(<<Plus(Set(Space)), Star(Dot), Plus(Set(Space))>>) >>

isLikelyUserFacingContent(text) ==
  /\ \E k \in 1..Len(userFacingPatterns) : test(userFacingPatterns[k], text)
  /\ Len(text) > MinUserFacingLen
  /\ ~isCodeIdentifier(text)

\* TextExtractor.isDisplayText of part_006:993-1141, called with the context
\* of a string literal
displayTextOfLiteral(trimmed, context) ==
      IF test(Cat(<<Bol, Plus(Set(AlphaNum \cup {"_", "."})), Eol>>), trimmed) /\ includes(trimmed, ".")
        THEN FALSE
      ELSE IF \/ test(Cat(<<Bol, Lit("${"), Star(Dot), Lit("}"), Eol>>), trimmed)
              \/ test(Cat(<<Lit("assets/i18n/"), Star(Dot), Lit(".json")>>), trimmed)
        THEN FALSE
      ELSE IF includes(trimmed, "${") /\ includes(trimmed, "}")
        THEN FALSE
      ELSE IF ~test(Set(Space), trimmed) /\ Len(trimmed) < MaxSingleWordLen
        THEN FALSE
      ELSE IF /\ test(Cat(<<Bol, Set(Lower), Star(Set(AlphaNum)), Eol>>), trimmed)
              /\ test(Set(Upper), trimmed)
        THEN FALSE
      ELSE IF test(Cat(<<Bol, Plus(Set(Lower \cup Digit)),
                         Plus(Cat(<<Lit("-"), Plus(Set(Lower \cup Digit))>>)), Eol>>), trimmed)
        THEN FALSE
      ELSE IF context.isImport \/ context.isRequire
        THEN FALSE
      ELSE IF context.isDecorator \/ context.isComponentDecorator
        THEN FALSE
      ELSE IF context.isClassProperty /\ ~context.isInMethod
        THEN FALSE
      ELSE IF context.isThrow /\ context.isInMethod
        THEN isUserFacingErrorMessage(trimmed)
      ELSE IF context.isThrow /\ ~context.isInMethod
        THEN FALSE
      ELSE IF context.isConsole
        THEN FALSE
      ELSE IF context.isProperty /\ isCodeIdentifier(trimmed)
        THEN FALSE
      ELSE IF context.isArray /\ isCodeIdentifier(trimmed)
        THEN FALSE
      ELSE IF ~context.isInMethod /\ ~isLikelyUserFacingContent(trimmed)
        THEN FALSE
      ELSE IF \E k \in 1..Len(codePatterns) : test(codePatterns[k], trimmed)
        THEN FALSE
      ELSE IF Len(trimmed) < MinTextLen
        THEN FALSE
      ELSE IF ~includes(trimmed, " ") /\ Len(trimmed) < MinWordLen /\ isCodeIdentifier(trimmed)
        THEN FALSE
      ELSE TRUE

isDisplayTextOfLiteral(text, context) == displayTextOfLiteral(trim(text), context)

\* the literals one pattern of extractStringLiterals pushes; index is the
\* match index of the literal
pushed(content, index, fullMatch, value, context) ==
  IF ~isInComment(content, index) /\ Len(value) > 0 /\ isDisplayTextOfLiteral(value, context)
  THEN <<[full |-> fullMatch, value |-> value, index |-> index, context |-> context]>>
  ELSE <<>>

literalOf(content, index, fullMatch) ==
  pushed(content, index, fullMatch, substring(fullMatch, 1, Len(fullMatch) - 1),
         getStringContext(content, index))

RECURSIVE literalsAmong(_, _, _)
literalsAmong(content, matches, k) ==
  IF k > Len(matches) THEN <<>>
  ELSE literalOf(content, matches[k][1], substring(content, matches[k][1], matches[k][2]))
       \o literalsAmong(content, matches, k + 1)

\* TextExtractor.extractStringLiterals
extractStringLiterals(content) ==
  literalsAmong(content, execAll(stringPatterns[1], content, 0), 1)
  \o literalsAmong(content, execAll(stringPatterns[2], content, 0), 1)

\* the expression extractFromTypeScriptFile puts in the place of a literal:
\* the pipe form after an assignment, the instant call otherwise
lookupExpression(literal, key) ==
  IF test(Cat(<<WordRun, SpaceRun, Set({":", "="}), SpaceRun, Eol>>), literal.context.beforeContext)
  THEN "'" \o key \o "' | translate"
  ELSE "this.translate.instant('" \o key \o "')"

\* one round of stringLiterals.forEach(literal => { ... }) of
\* extractFromTypeScriptFile (the key log is labelled with the index of the
\* literal)
substituted(st, opts, literal, key) ==
  IF isExcluded(literal.value) THEN st
  ELSE IF opts.replace
  THEN [record(st, opts.keyPrefix, literal.value, literal.value, "literal", literal.index)
          EXCEPT !.content = replaceFirst(st.content, literal.full,
                                          lookupExpression(literal, key)),
                 !.hasReplacements = TRUE]
  ELSE record(st, opts.keyPrefix, literal.value, literal.value, "literal", literal.index)

RECURSIVE substituteLiterals(_, _, _, _)
substituteLiterals(st, opts, literals, k) ==
  IF k > Len(literals) THEN st
  ELSE substituteLiterals(
         substituted(st, opts, literals[k],
                     generateKey(opts.keyPrefix, st.context, st.keyCounter,
                                 literals[k].value, <<>>)),
         opts, literals, k + 1)

\* one logic file, from the session state at its start
extractLiterals(content, opts, file, context, counter, texts, log) ==
  substituteLiterals([content |-> content, hasReplacements |-> FALSE, file |-> file,
                      context |-> context, keyCounter |-> counter,
                      extractedTexts |-> texts, keyLog |-> log],
                     opts, extractStringLiterals(content), 1)

\* path.relative(from, to) for a directory from that is to or lies below it
RECURSIVE relative(_, _)
relative(from, to) ==
  IF from = to THEN ""
  ELSE IF dirname(from) = to THEN ".."
  ELSE "../" \o relative(dirname(from), to)

\* TextExtractor.calculateRelativePath, this.sourceBaseDir being set
servicePath(relativePath) ==
  IF relativePath = "" \/ relativePath = "." THEN "./shared/translate.service"
  ELSE pathJoin(relativePath, "shared/translate.service")

calculateRelativePath(filePath, sourceBaseDir) ==
  servicePath(relative(dirname(filePath), sourceBaseDir))

Quote == Set({"'", "\""})
\* . of a pattern with the s flag
AnyCh == NotSet({})

\* const importMatch = content.match(/import.*from\s+['"]@angular\/core['"];?\s*\n/)
insertImport(content, importStatement, importMatch) ==
  IF importMatch # <<>>
  THEN substring(content, 0, importMatch[2]) \o importStatement
       \o substring(content, importMatch[2], Len(content))
  ELSE importStatement \o content

\* if (!hasTranslateImport) { ... }
withImport(content, importStatement) ==
  IF test(Cat(<<Lit("import"), Star(Dot), Lit("TranslateService"), Star(Dot), Lit("from"),
                Plus(Set(Space)), Quote, Star(Dot), Quote>>), content)
  THEN content
  ELSE insertImport(content, importStatement,
                    execFrom(Cat(<<Lit("import"), Star(Dot), Lit("from"), Plus(Set(Space)),
                                   Quote, Lit("@angular/core"), Quote, Opt(Lit(";")), SpaceRun,
                                   Lit("\n")>>),
                             content, 0, FALSE))

\* /(constructor\s*\(\s*)(.*?)(\s*\)\s*{)/s
ConstructorOpening == Cat(<<Lit("constructor"), SpaceRun, Lit("("), SpaceRun>>)
ConstructorClosing == Cat(<<SpaceRun, Lit(")"), SpaceRun, Lit("{")>>)

newParams(params) ==
  (IF params # "" /\ ~endsWith(params, ",") THEN params \o ",\n    "
   ELSE IF params = "" THEN "\n    "
   ELSE params) \o "private translate: TranslateService\n  "

\* content.replace(constructorRegex, `${beforeParams}${newParams}${afterParams}`)
injectParams(content, constructorMatch, paramsStart, paramsEnd) ==
  replaceFirst(content,
               substring(content, constructorMatch[1], constructorMatch[2]),
               substring(content, constructorMatch[1], paramsStart)
               \o newParams(trim(substring(content, paramsStart, paramsEnd)))
               \o substring(content, paramsEnd, constructorMatch[2]))

\* the second group is lazy: it ends at the first place the third can match
injectFrom(content, constructorMatch, paramsStart) ==
  injectParams(content, constructorMatch, paramsStart,
               Least({ p \in paramsStart..constructorMatch[2] :
                         Ends(ConstructorClosing, content, p + 1) # {} }))

\* classMatch is /(export\s+class\s+\w+.*?{)/s
injectInto(content, constructorMatch, classMatch) ==
  IF constructorMatch # <<>>
  THEN injectFrom(content, constructorMatch,
                  Greatest(Ends(ConstructorOpening, content, constructorMatch[1] + 1)) - 1)
  ELSE IF classMatch # <<>>
  THEN substring(content, 0, classMatch[2])
       \o "\n\n  constructor(private translate: TranslateService) {}\n"
       \o substring(content, classMatch[2], Len(content))
  ELSE content

\* if (!hasTranslateInjection) { ... }
withInjection(content) ==
  IF test(Cat(<<Lit("constructor"), SpaceRun, Lit("("), Star(NotSet({")"})), Lit("translate"),
                SpaceRun, Lit(":"), SpaceRun, Lit("TranslateService")>>), content)
  THEN content
  ELSE injectInto(content,
                  execFrom(Cat(<<ConstructorOpening, Star(AnyCh), ConstructorClosing>>),
                           content, 0, TRUE),
                  execFrom(Cat(<<Lit("export"), Plus(Set(Space)), Lit("class"),
                                 Plus(Set(Space)), WordRun, Star(AnyCh), Lit("{")>>),
                           content, 0, TRUE))

\* TextExtractor.ensureTranslateServiceIntegration
ensureTranslateServiceIntegration(content, filePath, sourceBaseDir) ==
  withInjection(withImport(content,
                           "import { TranslateService } from '"
                           \o calculateRelativePath(filePath, sourceBaseDir) \o "';\n"))

(***************************************************************************)
(* The logic files of the source directory.                                *)
(***************************************************************************)
TsGreeter ==
  "export class Greeter {\n  greet() {\n    alert('Welcome to our application');\n  }\n}\n"

TsHelp ==
  "// shows 'Click here to continue'\nexport class Help {\n  show() {\n"
  \o "    alert('Click here to continue');\n  }\n}\n"

TsHome == "export class Home {\n  title = 'Welcome to our app';\n  mode = 'enabled';\n}\n"

TsNotes ==
  "save() {\n  console.log('Save your work now');\n  alert('Save your work now');\n}\n"

TsReport ==
  "import { Component } from '@angular/core';\nexport class Report {\n"
  \o "  constructor(private http: HttpClient) {}\n  run() {\n"
  \o "    throw new Error('Please select a report first');\n  }\n}\n"

\* the names glob.sync('**/*.ts') returns, the test files filtered out
LogicNames ==
  <<"greeter.component.ts", "help.component.ts", "home.component.ts", "notes.service.ts",
    "pages/report.component.ts">>

logicSourceOf(fullPath) ==
  CASE basename1(fullPath) = "greeter.component.ts" -> TsGreeter
    [] basename1(fullPath) = "help.component.ts" -> TsHelp
    [] basename1(fullPath) = "home.component.ts" -> TsHome
    [] basename1(fullPath) = "notes.service.ts" -> TsNotes
    [] basename1(fullPath) = "report.component.ts" -> TsReport

LogicFiles == { pathJoin(SrcPath, LogicNames[k]) : k \in 1..Len(LogicNames) }

(***************************************************************************)
(* The loop of extractFromDirectory over the logic files (part_006, lines  *)
(* 1221 to 1226) of a directory without markup files: this.sourceBaseDir   *)
(* is the source directory and shared/translate.service.ts is in place.    *)
(***************************************************************************)
LogicInit ==
  /\ options \in [srcPath : {SrcPath}, outputPath : {OutputPath}, locale : {"en"},
                  keyPrefix : KeyPrefixes, replace : BOOLEAN, excludeTs : {FALSE}]
  /\ htmlFiles = <<>>
  /\ tsFiles \in Listings(LogicNames, 1, MaxFiles)
  /\ pc = "logic"
  /\ SessionInit
  /\ fsReads = <<>>
  /\ fsWrites = <<>>
  /\ fsAttempts = <<>>
  /\ mkdirs = <<>>
  /\ console = <<>>
  /\ exitCode = <<>>
  /\ pending = <<>>
  /\ fileIdx = 1
  /\ verdicts = <<>>
  /\ history = <<>>
  /\ disk = [fullPath \in LogicFiles |-> logicSourceOf(fullPath)]

logicPathAt(k) == pathJoin(options.srcPath, tsFiles[k])

\* extractFromTypeScriptFile, from its call to the await of fs.writeFile (or
\* to its return when nothing is written)
ExtractFromTypeScriptFile ==
  /\ pc = "logic"
  /\ fileIdx <= Len(tsFiles)
  /\ \E filePath \in {logicPathAt(fileIdx)} :
     \E context \in {setComponentContext(currentComponentContext, filePath)} :
     \E st \in {extractLiterals(disk[filePath], options, filePath, context, keyCounter,
                                extractedTexts, keyLog)} :
         /\ currentComponentContext' = context
         /\ fsReads' = Append(fsReads, Call(filePath, <<>>))
         /\ extractedTexts' = st.extractedTexts
         /\ keyCounter' = st.keyCounter
         /\ keyLog' = st.keyLog
         /\ IF options.replace /\ st.hasReplacements
            THEN /\ pending' = <<ensureTranslateServiceIntegration(st.content, filePath,
                                                                   options.srcPath)>>
                 /\ pc' = "logicWrite"
                 /\ fileIdx' = fileIdx
            ELSE /\ pending' = <<>>
                 /\ pc' = "logic"
                 /\ fileIdx' = fileIdx + 1
  /\ UNCHANGED <<aux, input, fsWrites, fsAttempts, mkdirs, console, exitCode>>

\* the catch block of extractFromTypeScriptFile
warnTypeScript(filePath, message) ==
  Line("warn", "Warning: Could not process TypeScript file " \o filePath \o ":", message)

\* fs.readFile rejects
TypeScriptReadFail ==
  /\ pc = "logic"
  /\ fileIdx <= Len(tsFiles)
  /\ \E message \in IoErrors :
       LET filePath == logicPathAt(fileIdx)
       IN  /\ currentComponentContext' = setComponentContext(currentComponentContext, filePath)
           /\ fsReads' = Append(fsReads, Call(filePath, <<message>>))
           /\ console' = Append(console, warnTypeScript(filePath, message))
  /\ fileIdx' = fileIdx + 1
  /\ UNCHANGED <<aux, input, extractedTexts, keyCounter, keyLog, pc, pending,
                 fsWrites, fsAttempts, mkdirs, exitCode>>

\* fs.writeFile(filePath, modifiedContent) resolves
TypeScriptWriteOk ==
  /\ pc = "logicWrite"
  /\ fsWrites' = Append(fsWrites, HtmlWrite(logicPathAt(fileIdx), pending[1]))
  /\ fsAttempts' = Append(fsAttempts, Call(logicPathAt(fileIdx), <<>>))
  /\ pending' = <<>>
  /\ pc' = "logic"
  /\ fileIdx' = fileIdx + 1
  /\ disk' = [disk EXCEPT ![logicPathAt(fileIdx)] = pending[1]]
  /\ UNCHANGED <<verdicts, peer, history, input, session, fsReads, mkdirs, console,
                 exitCode>>

\* fs.writeFile(filePath, modifiedContent) rejects
TypeScriptWriteFail ==
  /\ pc = "logicWrite"
  /\ \E message \in IoErrors :
       /\ console' = Append(console, warnTypeScript(logicPathAt(fileIdx), message))
       /\ fsAttempts' = Append(fsAttempts, Call(logicPathAt(fileIdx), <<message>>))
  /\ pending' = <<>>
  /\ pc' = "logic"
  /\ fileIdx' = fileIdx + 1
  /\ UNCHANGED <<aux, input, session, fsReads, fsWrites, mkdirs, exitCode>>

LogicNext ==
  \/ ExtractFromTypeScriptFile
  \/ TypeScriptReadFail
  \/ TypeScriptWriteOk
  \/ TypeScriptWriteFail

LogicSpec == LogicInit /\ [][LogicNext]_vars

(***************************************************************************)
(* Two instances built from the same options, each running                 *)
(* extractFromDirectory over the same listing without replace; the         *)
(* awaits of the two loops interleave in any order.                        *)
(***************************************************************************)
RerunInit ==
  /\ Init
  /\ options.replace = TRUE

\* the most runs that follow the first
MaxReruns == 1

\* the command is run again on the same directory: a new process, a new
\* TextExtractor, the files as the run before left them
RunAgain ==
  /\ pc = "done"
  /\ Len(history) < MaxReruns
  /\ history' = Append(history, keyLog)
  /\ extractedTexts' = newSession.extractedTexts
  /\ keyCounter' = newSession.keyCounter
  /\ currentComponentContext' = newSession.currentComponentContext
  /\ keyLog' = newSession.keyLog
  /\ fileIdx' = newSession.fileIdx
  /\ pc' = "cli"
  /\ UNCHANGED <<verdicts, peer, disk, input, pending, io>>

RerunNext == CliStart \/ ReadFileOk \/ WriteBackOk \/ MkdirOk \/ WriteJSONOk \/ RunAgain

RerunSpec == RerunInit /\ [][RerunNext]_vars

PairInit ==
  /\ Init
  /\ options.replace = FALSE

\* a second instance that counts with the counter of the first
thisKeyCounterShared(self) == keyCounter

\* this.keyCounter, read by the instance the method is called on
thisKeyCounter(self) == self.keyCounter

\* extractFromHtmlTemplate on the second instance, its read resolving
PeerReadFileOk ==
  /\ peer.fileIdx <= Len(htmlFiles)
  /\ \E filePath \in {fullPathAt(peer.fileIdx)} :
     \E context \in {setComponentContext(peer.currentComponentContext, filePath)},
        doc \in {load(disk[filePath])} :
     \E st \in {extractDocument(doc, options, filePath, context, thisKeyCounter(peer),
                                peer.extractedTexts, peer.keyLog)} :
         /\ peer' = [extractedTexts |-> st.extractedTexts,
                     keyCounter |-> st.keyCounter,
                     currentComponentContext |-> context,
                     keyLog |-> st.keyLog,
                     fileIdx |-> peer.fileIdx + 1]
         /\ fsReads' = Append(fsReads, Call(filePath, <<>>))
  /\ UNCHANGED <<verdicts, disk, history, input, session, pc, fileIdx, pending,
                 fsWrites, fsAttempts, mkdirs, console, exitCode>>

PairNext == CliStart \/ ReadFileOk \/ PeerReadFileOk

PairSpec == PairInit /\ [][PairNext]_vars

(***************************************************************************)
(* Properties.                                                             *)
(***************************************************************************)
IsDigits(str) == str # "" /\ CharsOf(str) \subseteq Digit

\* the number a decimal numeral denotes
RECURSIVE NumeralValue(_)
NumeralValue(str) ==
  IF str = "" THEN 0
  ELSE 10 * NumeralValue(SubSeq(str, 1, Len(str) - 1)) + (IndexIn(DigitAlpha, Ch(str, Len(str))) - 1)

\* what follows the last underscore of a key
KeySuffix(key) == SubSeq(key, lastIndexOf(key, "_") + 1, Len(key))

\* C1: no two keys returned by generateKey on one session are equal, also
\* for identical texts, and the numeric suffix of the n-th returned key is n:
\* the counter starts at 1, grows by one per call and is never reset, in
\* particular not when the component context changes.
C1_KeysUniqueAndNumbered ==
  /\ \A i, j \in 1..Len(keyLog) : i # j => keyLog[i].key # keyLog[j].key
  /\ \A i \in 1..Len(keyLog) :
       /\ lastIndexOf(keyLog[i].key, "_") > 0
       /\ IsDigits(KeySuffix(keyLog[i].key))
       /\ NumeralValue(KeySuffix(keyLog[i].key)) = i
  /\ keyCounter = Len(keyLog) + 1

\* three calls, two of them with the same text under the same context, and
\* a change of context between two calls
C1_Witness ==
  /\ Len(keyLog) >= 3
  /\ \E i, j \in 1..Len(keyLog) :
       /\ i < j
       /\ keyLog[i].text = keyLog[j].text
       /\ keyLog[i].current = keyLog[j].current
       /\ keyLog[i].filePath = keyLog[j].filePath
  /\ \E i \in 1..(Len(keyLog) - 1) :
       keyLog[i].current # <<>> /\ keyLog[i + 1].current # keyLog[i].current

\* the slug the specification describes, by one pass over the trimmed text:
\* letters (lowercased) and digits are kept, a run of white space gives one
\* underscore, every other character is dropped
RECURSIVE SlugScan(_, _, _)
SlugScan(str, i, inRun) ==
  IF i > Len(str) THEN ""
  ELSE IF Ch(str, i) \in Space
       THEN (IF inRun THEN "" ELSE "_") \o SlugScan(str, i + 1, TRUE)
  ELSE IF Ch(str, i) \in Letter \cup Digit
       THEN toLowerCh(Ch(str, i)) \o SlugScan(str, i + 1, FALSE)
  ELSE SlugScan(str, i + 1, inRun)

SlugChars == Lower \cup Digit \cup {"_"}

KeyWellFormed(e) ==
  LET key == e.key
      pre == options.keyPrefix \o "."
      us == lastIndexOf(key, "_")
      body == SubSeq(key, Len(pre) + 1, us - 1)
      full == SlugScan(trim(e.text), 1, FALSE)
      slug == IF Len(full) > MaxSlugLen THEN SubSeq(full, 1, MaxSlugLen) ELSE full
      segment == SubSeq(body, 1, Len(body) - Len(slug))
      hasContext == e.current # <<>> \/ e.filePath # <<>>
  IN  /\ startsWith(key, pre)
      /\ us > Len(pre)
      /\ IsDigits(KeySuffix(key))
      /\ NumeralValue(KeySuffix(key)) = e.counter
      /\ endsWith(body, slug)
      /\ CharsOf(slug) \subseteq SlugChars
      /\ Len(slug) <= MaxSlugLen
      /\ hasContext => Len(segment) >= 2 /\ endsWith(segment, ".")
      /\ ~hasContext => segment = ""

\* C2: every key has the form <keyPrefix>.[<componentContext>.]<slug>_<counter>;
\* the slug holds only lowercase letters, digits and underscores, is the
\* trimmed text without the characters that are not letters, digits or white
\* space and with each white-space run turned into one underscore, cut to at
\* most 25 characters; the context segment is there exactly when a current
\* context is set or a file path is passed.
C2_KeyForm == \A i \in 1..Len(keyLog) : KeyWellFormed(keyLog[i])

\* keys with and without a context segment, one of them with a cut slug and
\* one from a text with punctuation and runs of white space
C2_Witness ==
  /\ \E i \in 1..Len(keyLog) : keyLog[i].current = <<>> /\ keyLog[i].filePath = <<>>
  /\ \E i \in 1..Len(keyLog) : keyLog[i].current # <<>> /\ Len(keyLog[i].text) > MaxSlugLen
  /\ \E i \in 1..Len(keyLog) : keyLog[i].filePath # <<>> /\ keyLog[i].text = "  Save - now! "

(***************************************************************************)
(* The run of extractTexts.                                                *)
(***************************************************************************)
SuccessLine == Line("log", "Text extraction completed successfully!", "")
FailedReads == { r \in 1..Len(fsReads) : fsReads[r].error # <<>> }
SourceAttempts == { i \in 1..Len(fsAttempts) : fsAttempts[i].path # options.outputPath }
ArtifactAttempts == { i \in 1..Len(fsAttempts) : fsAttempts[i].path = options.outputPath }
EntriesOf(file) == { j \in 1..Len(keyLog) : keyLog[j].file = file }

\* C3: with replace=false no source file is ever written, whatever files are
\* discovered and however the reads settle: the only fs.writeFile call of the
\* run is the one for the output file.
C3_NoSourceWritten ==
  ~options.replace =>
     /\ SourceAttempts = {}
     /\ \A i \in 1..Len(fsWrites) : fsWrites[i].path = options.outputPath /\ fsWrites[i].html = <<>>
     /\ Len(fsAttempts) <= 1
     /\ pending = <<>>

\* a finished run without replace: one file was read and gave texts, one
\* read failed, and the output file is the one write
C3_Witness ==
  /\ ~options.replace
  /\ pc = "done"
  /\ keyLog # <<>>
  /\ FailedReads # {}
  /\ Len(fsWrites) = 1
  /\ fsWrites[1].path = options.outputPath

\* C4: with replace=true a markup file is written back only when a text or
\* an attribute of it was substituted: every fs.writeFile call on a source
\* file is for a file with at least one extracted entry.
C4_WriteOnlyIfSubstituted ==
  options.replace =>
     \A i \in SourceAttempts : EntriesOf(fsAttempts[i].path) # {}

WarningsFor(path, message) ==
  { k \in 1..Len(console) :
      /\ console[k].level = "warn"
      /\ includes(console[k].text, path)
      /\ console[k].detail = message }

AllFilesRead ==
  /\ Len(fsReads) = Len(htmlFiles)
  /\ \A k \in 1..Len(htmlFiles) : fsReads[k].path = pathJoin(options.srcPath, htmlFiles[k])

ReadFailureSkipsFile ==
  /\ \A r \in FailedReads :
       /\ Cardinality(WarningsFor(fsReads[r].path, fsReads[r].error[1])) = 1
       /\ EntriesOf(fsReads[r].path) = {}
       /\ \A i \in 1..Len(fsAttempts) : fsAttempts[i].path # fsReads[r].path
  /\ (FailedReads # {} /\ exitCode # <<>>) =>
       \/ mkdirs # <<>> /\ mkdirs[Len(mkdirs)].error # <<>>
       \/ \E i \in ArtifactAttempts : fsAttempts[i].error # <<>>
  /\ pc \in {"files", "writeBack"} => fileIdx = Len(fsReads) + (IF pc = "files" THEN 1 ELSE 0)
  /\ pc \in {"writeJSON", "done", "exited"} => AllFilesRead
  /\ pc = "done" => Len(fsWrites) >= 1 /\ fsWrites[Len(fsWrites)].json # <<>>

\* the step in which a read is rejected
ReadRejected ==
  /\ Len(fsReads') = Len(fsReads) + 1
  /\ fsReads'[Len(fsReads')].error # <<>>

ReadFailureStep ==
  ReadRejected =>
    LET call == fsReads'[Len(fsReads')]
    IN  /\ call.path = pathJoin(options.srcPath, htmlFiles[fileIdx])
        /\ Len(console') = Len(console) + 1
        /\ SubSeq(console', 1, Len(console)) = console
        /\ console'[Len(console')].level = "warn"
        /\ includes(console'[Len(console')].text, call.path)
        /\ console'[Len(console')].detail = call.error[1]
        /\ exitCode' = <<>>
        /\ pc' = "files"
        /\ fileIdx' = fileIdx + 1
        /\ UNCHANGED <<extractedTexts, keyCounter, keyLog, fsWrites, fsAttempts, mkdirs>>

\* C5: a failed read of a markup file gives one warning with the file path
\* and the error message and nothing else: nothing is thrown, the process
\* does not exit for it and the loop stands at the next file, so that
\* saveToJSON is only called after every discovered file has been read, and
\* a run with a failed read that ends normally has written the output file.
C5_ReadFailureNotFatal ==
  /\ []ReadFailureSkipsFile
  /\ [][ReadFailureStep]_vars

\* the first of two files could not be read, the second was read and gave
\* texts, and the output file was written
C5_Witness ==
  /\ pc = "done"
  /\ Len(htmlFiles) = 2
  /\ 1 \in FailedReads
  /\ 2 \notin FailedReads
  /\ EntriesOf(fsReads[2].path) # {}
  /\ fsWrites[Len(fsWrites)].json # <<>>

ReportedAndExited(message) ==
  /\ pc = "exited"
  /\ exitCode = <<1>>
  /\ console # <<>>
  /\ console[Len(console)].level = "error"
  /\ console[Len(console)].detail = message
  /\ \A k \in 1..Len(console) : console[k] # SuccessLine
  /\ \A i \in 1..Len(fsWrites) : fsWrites[i].json = <<>>

\* C6: a failure of fs.mkdir or of the fs.writeFile of the output file is
\* caught neither by saveToJSON nor by extractTexts: the command reports it
\* with its message, exits with code 1 and never prints the success line;
\* when fs.mkdir fails the output write is not attempted.
C6_ArtifactErrorsReachCaller ==
  /\ \A m \in 1..Len(mkdirs) : mkdirs[m].error # <<>> =>
       /\ ReportedAndExited(mkdirs[m].error[1])
       /\ ArtifactAttempts = {}
  /\ \A i \in ArtifactAttempts : fsAttempts[i].error # <<>> =>
       ReportedAndExited(fsAttempts[i].error[1])
  /\ (\E k \in 1..Len(console) : console[k] = SuccessLine) =>
       /\ pc = "done" /\ exitCode = <<>>
       /\ \E i \in 1..Len(fsWrites) : fsWrites[i].json # <<>>

\* texts were extracted, the directory was created and the write of the
\* output file was rejected
C6_Witness ==
  /\ keyLog # <<>>
  /\ mkdirs # <<>>
  /\ mkdirs[1].error = <<>>
  /\ \E i \in ArtifactAttempts : fsAttempts[i].error # <<>>
  /\ pc = "exited"

(***************************************************************************)
(* The output file and the entries of the markup files.                    *)
(***************************************************************************)
ArtifactsWritten == { i \in 1..Len(fsWrites) : fsWrites[i].json # <<>> }
SucceededReads == { r \in 1..Len(fsReads) : fsReads[r].error = <<>> }
TextKinds == {"text", "fragment"}

\* C7: the object saveToJSON writes holds exactly the (key, value) pairs of
\* the session, in the order they were generated: one entry per generateKey
\* call, none overwritten; metadata.totalTexts is the number of keys of
\* translations; locale and metadata.keyPrefix are those of the options.
C7_ArtifactMatchesSession ==
  \A i \in ArtifactsWritten :
     LET out == fsWrites[i].json[1]
     IN  /\ Len(out.translations) = Len(keyLog)
         /\ \A k \in 1..Len(keyLog) :
              /\ out.translations[k].key = keyLog[k].key
              /\ out.translations[k].value = keyLog[k].value
         /\ \A k, l \in 1..Len(out.translations) :
              k # l => out.translations[k].key # out.translations[l].key
         /\ out.metadata.totalTexts = Len(out.translations)
         /\ out.locale = options.locale
         /\ out.metadata.keyPrefix = options.keyPrefix

\* an output file with entries of two files, one of them a fragment whose
\* value is markup and not its text
C7_Witness ==
  /\ pc = "done"
  /\ ArtifactsWritten # {}
  /\ \E k, l \in 1..Len(keyLog) :
       /\ keyLog[k].file # keyLog[l].file
       /\ keyLog[k].kind = "fragment"
       /\ keyLog[k].value # keyLog[k].text

\* C8: an element with element children that is extracted as one inner-markup
\* fragment is recorded under one key, and no descendant element of it has a
\* text entry of its own in the same file, whatever the tags of the element
\* and of its descendants.
C8_FragmentExtractedOnce ==
  \A k \in 1..Len(keyLog) : keyLog[k].kind = "fragment" =>
     /\ \A l \in 1..Len(keyLog) :
          (/\ keyLog[l].file = keyLog[k].file
           /\ keyLog[l].kind = "fragment"
           /\ keyLog[l].element = keyLog[k].element) => l = k
     /\ \A l \in 1..Len(keyLog) :
          (keyLog[l].file = keyLog[k].file /\ keyLog[l].kind \in TextKinds) =>
             keyLog[l].element \notin find(contentOf(keyLog[k].file).nodes, keyLog[k].element)

\* the entries of one attribute of one element of a file
AttrEntries(file, el, attr) ==
  { j \in 1..Len(keyLog) :
      keyLog[j].file = file /\ keyLog[j].element = el /\ keyLog[j].kind = attr }

\* an attribute value with none of the four markers of a binding
PlainValue(v) ==
  ~includes(v, "{{") /\ ~includes(v, "}}") /\ ~includes(v, "[") /\ ~includes(v, "(")

\* what holds of the title, alt, placeholder and aria-label attributes of
\* every element of every file read, for a given test of the value
AttributesExtractedBy(accepts(_)) ==
  \A r \in SucceededReads :
     LET file == fsReads[r].path
         ns == contentOf(file).nodes
     IN  \A el \in 1..Len(ns), a \in 1..Len(attributes) :
            LET found == attrOf(ns[el], attributes[a])
                entries == AttrEntries(file, el, attributes[a])
            IN  /\ found = <<>> => entries = {}
                /\ found # <<>> =>
                     /\ accepts(found[1]) /\ PlainValue(found[1]) =>
                          /\ Cardinality(entries) = 1
                          /\ \A j \in entries :
                               /\ keyLog[j].text = found[1]
                               /\ keyLog[j].value = found[1]
                               /\ \A l \in 1..Len(keyLog) : l # j => keyLog[l].key # keyLog[j].key
                     /\ ~(accepts(found[1]) /\ PlainValue(found[1])) => entries = {}

ClassifierAccepts(v) == isDisplayText(v, NoContext)
NotExcluded(v) == v # "" /\ trim(v) # "" /\ ~isExcluded(v)

\* C9 as stated: the value is extracted exactly when the classifier accepts
\* it and it has no binding or interpolation syntax.
C9_AttributesByClassifier == AttributesExtractedBy(ClassifierAccepts)

\* C9: each title, alt, placeholder and aria-label value that is not empty,
\* not excluded by isExcluded (only digits, only white space, only
\* punctuation) and contains none of "{{", "}}", "[", "(" is extracted under
\* its own key, distinct from every other key of the session and so from the
\* text entries of the file; any other value is not extracted.
C9_AttributesByExclusion == AttributesExtractedBy(NotExcluded)

\* a file read with an attribute entry and a text entry of the same text on
\* one element, and a file read with a title holding "(" that has no entry
C9_Witness ==
  /\ \E j, l \in 1..Len(keyLog) :
       /\ keyLog[j].kind = "title"
       /\ keyLog[l].kind = "text"
       /\ keyLog[l].file = keyLog[j].file
       /\ keyLog[l].element = keyLog[j].element
       /\ keyLog[l].text = keyLog[j].text
       /\ keyLog[l].key # keyLog[j].key
  /\ \E r \in SucceededReads :
       LET ns == contentOf(fsReads[r].path).nodes
       IN  \E el \in 1..Len(ns) :
              /\ attrOf(ns[el], "title") # <<>>
              /\ ~PlainValue(attrOf(ns[el], "title")[1])
              /\ AttrEntries(fsReads[r].path, el, "title") = {}

\* C10: a directory with one markup file <h1>Welcome to our app</h1> and one
\* logic file title = 'Welcome to our app';, run with keyPrefix "app" and
\* without replace, gives an output file with two distinct keys, one per
\* file, both for "Welcome to our app", and metadata.totalTexts = 2.
C10_EndToEndTwoKeys ==
  (/\ pc = "done"
   /\ htmlFiles = <<"home.component.html">>
   /\ tsFiles = <<"home.component.ts">>
   /\ options.keyPrefix = "app"
   /\ ~options.replace
   /\ FailedReads = {}) =>
     \E i \in ArtifactsWritten :
        LET out == fsWrites[i].json[1]
        IN  /\ Len(out.translations) = 2
            /\ out.translations[1].key # out.translations[2].key
            /\ out.translations[1].value = "Welcome to our app"
            /\ out.translations[2].value = "Welcome to our app"
            /\ out.metadata.totalTexts = 2

(***************************************************************************)
(* The classifier.                                                         *)
(***************************************************************************)
RejectedExamples == {"https://api.example.com", "userId", "#ffffff", "GET", "1.2.3"}
AcceptedExamples == {"Welcome to our application", "Click here to continue"}

\* C11: without context isDisplayText returns false for
\* "https://api.example.com", "userId", "#ffffff", "GET" and "1.2.3", and
\* true for "Welcome to our application" and "Click here to continue".
C11_ClassifierExamples ==
  \A i \in 1..Len(verdicts) :
     verdicts[i].context = NoContext =>
        /\ verdicts[i].text \in RejectedExamples => verdicts[i].result = FALSE
        /\ verdicts[i].text \in AcceptedExamples => verdicts[i].result = TRUE

\* a rejected and an accepted example have both been classified without
\* context
C11_Witness ==
  /\ \E i \in 1..Len(verdicts) :
       /\ verdicts[i].context = NoContext
       /\ verdicts[i].text \in RejectedExamples
       /\ ~verdicts[i].result
  /\ \E i \in 1..Len(verdicts) :
       /\ verdicts[i].context = NoContext
       /\ verdicts[i].text \in AcceptedExamples
       /\ verdicts[i].result

SameVerdictForSamePair ==
  \A i, j \in 1..Len(verdicts) :
     (verdicts[i].text = verdicts[j].text /\ verdicts[i].context = verdicts[j].context) =>
        verdicts[i].result = verdicts[j].result

ClassifyingStep == verdicts' # verdicts

IsPrefix(a, b) == Len(a) <= Len(b) /\ SubSeq(b, 1, Len(a)) = a

\* the session that has processed fewer files holds the first part of the
\* other's mapping and key log; at the same file the two hold the same
SessionsAgree ==
  /\ fileIdx <= peer.fileIdx =>
        /\ IsPrefix(extractedTexts, peer.extractedTexts)
        /\ IsPrefix(keyLog, peer.keyLog)
  /\ peer.fileIdx <= fileIdx =>
        /\ IsPrefix(peer.extractedTexts, extractedTexts)
        /\ IsPrefix(peer.keyLog, keyLog)
  /\ fileIdx = peer.fileIdx => keyCounter = peer.keyCounter

\* a step of one session changes no field of the other
SessionsSeparate ==
  /\ peer' # peer => UNCHANGED <<session, fileIdx>>
  /\ <<session, fileIdx>>' # <<session, fileIdx>> => peer' = peer

RECURSIVE CommonPrefix(_, _, _)
CommonPrefix(a, b, n) ==
  IF n < Len(a) /\ n < Len(b) /\ Ch(a, n + 1) = Ch(b, n + 1)
  THEN CommonPrefix(a, b, n + 1) ELSE n

\* out is src with some occurrences of recorded values replaced by the
\* placeholders of their keys, and nothing else changed
RECURSIVE DiffersOnlyAt(_, _, _)
DiffersOnlyAt(src, out, entries) ==
  \/ src = out
  \/ \E e \in entries, c \in 0..CommonPrefix(src, out, 0) :
        /\ startsWith(SubSeq(src, c + 1, Len(src)), e.value)
        /\ startsWith(SubSeq(out, c + 1, Len(out)), placeholder(e.key))
        /\ DiffersOnlyAt(SubSeq(src, c + 1 + Len(e.value), Len(src)),
                         SubSeq(out, c + 1 + Len(placeholder(e.key)), Len(out)),
                         entries)

\* the key log entries recorded while a file was processed
LoggedFor(file) == { keyLog[j] : j \in EntriesOf(file) }

\* C14: the content about to be written back differs from the content read
\* only where a recorded text or attribute value was replaced by its
\* placeholder, the directive-casing fix-ups apart.
C14_RewriteContained ==
  pc = "writeBack" =>
    DiffersOnlyAt(restoreDirectiveCase(disk[fullPathAt(fileIdx)], 1), pending[1],
                  LoggedFor(fullPathAt(fileIdx)))

(***************************************************************************)
(* Placeholders.                                                           *)
(***************************************************************************)
PlaceholderOpen == "{{ '"
PlaceholderClose == "' | translate }}"

\* the first position at or after i where pat occurs in str, 0 when nowhere
Occurrence(str, pat, i) ==
  LET hit == { k \in i..(Len(str) - Len(pat) + 1) : SubSeq(str, k, k + Len(pat) - 1) = pat }
  IN  IF hit = {} THEN 0 ELSE CHOOSE k \in hit : \A j \in hit : k <= j

\* the key between the opening at position i and the next closing, <<>> when
\* no closing follows
KeyAt(str, i) ==
  LET c == Occurrence(str, PlaceholderClose, i + Len(PlaceholderOpen))
  IN  IF c = 0 THEN <<>> ELSE <<SubSeq(str, i + Len(PlaceholderOpen), c - 1)>>

\* the text mapped to a key, <<>> when the mapping does not hold the key
TextOf(m, key) ==
  LET hit == { j \in 1..Len(m) : m[j].key = key }
  IN  IF hit = {} THEN <<>> ELSE <<m[CHOOSE j \in hit : TRUE].value>>

\* every "{{ '" of the content opens a placeholder whose key the mapping holds
PlaceholdersKnown(out, m) ==
  \A i \in 1..Len(out) :
    startsWith(SubSeq(out, i, Len(out)), PlaceholderOpen) =>
      /\ KeyAt(out, i) # <<>>
      /\ TextOf(m, KeyAt(out, i)[1]) # <<>>

\* the content with every placeholder of a mapped key replaced by its text
RECURSIVE Restore(_, _)
Restore(out, m) ==
  LET i == Occurrence(out, PlaceholderOpen, 1)
  IN  IF i = 0 THEN out
      ELSE LET key == KeyAt(out, i)
               found == IF key = <<>> THEN <<>> ELSE TextOf(m, key[1])
           IN  IF found = <<>>
               THEN SubSeq(out, 1, i + Len(PlaceholderOpen) - 1)
                    \o Restore(SubSeq(out, i + Len(PlaceholderOpen), Len(out)), m)
               ELSE SubSeq(out, 1, i - 1) \o found[1]
                    \o Restore(SubSeq(out, i + Len(PlaceholderOpen) + Len(key[1])
                                            + Len(PlaceholderClose), Len(out)), m)

\* the content of a file as cheerio serialises it when nothing is replaced
Serialised(fullPath) ==
  restoreDirectiveCase(itemsHtml(contentOf(fullPath).nodes, contentOf(fullPath).top), 1)

HtmlWrites == { w \in 1..Len(fsWrites) : fsWrites[w].html # <<>> }

C16_KeysCarryOwnContext ==
  \A k \in 1..Len(keyLog) :
    LET e == keyLog[k]
        own == extractComponentName(e.file)
    IN  /\ e.current = <<own>>
        /\ own # ""
        /\ startsWith(e.key, options.keyPrefix \o "." \o own \o ".")

\* keys of two files with different contexts, the file read in between
\* or before having failed or yielded keys of its own context
C16_Witness ==
  /\ Len(fsReads) >= 2
  /\ \E j, k \in 1..Len(keyLog) :
        /\ j < k
        /\ keyLog[j].file # keyLog[k].file
        /\ keyLog[j].current # keyLog[k].current
        /\ includes(keyLog[k].key, "." \o extractComponentName(keyLog[k].file) \o ".")
        /\ ~includes(keyLog[k].key, "." \o keyLog[j].current[1] \o ".")

(***************************************************************************)
(* Leaf elements.                                                          *)
(***************************************************************************)
ContentTags == { contentElements[k] : k \in 1..Len(contentElements) }

TextEntries(file, el) ==
  { j \in 1..Len(keyLog) :
      keyLog[j].file = file /\ keyLog[j].element = el /\ keyLog[j].kind = "text" }

\* the place of an element of a content tag in the order of the traversal
VisitPos(ns, el) ==
  LET vo == visitOrder(ns, contentElements)
  IN  CHOOSE k \in 1..Len(vo) : vo[k].element = el

\* the element lies in a fragment that was extracted before its turn came
InEarlierFragment(file, ns, el) ==
  \E j \in EntriesOf(file) :
    /\ keyLog[j].kind = "fragment"
    /\ el \in find(ns, keyLog[j].element)
    /\ VisitPos(ns, keyLog[j].element) < VisitPos(ns, el)

\* no skip rule applies to a leaf element with this trimmed text
LeafEligible(file, ns, el, text) ==
  /\ ns[el].tag \in ContentTags
  /\ text # ""
  /\ ~isExcluded(text)
  /\ ~looksTranslated(text)
  /\ ~(includes(text, "{{") /\ includes(text, "}}"))
  /\ ~hasAngularDirectives(ns[el])
  /\ ~InEarlierFragment(file, ns, el)

\* what holds of every element without element children of every file read,
\* for a given test of its trimmed text
LeavesExtractedBy(accepts(_)) ==
  \A r \in SucceededReads :
     LET file == fsReads[r].path
         ns == contentOf(file).nodes
     IN  \A el \in 1..Len(ns) :
            find(ns, el) = {} =>
              LET text == trim(elText(ns, el))
                  entries == TextEntries(file, el)
              IN  /\ accepts(text) /\ LeafEligible(file, ns, el, text) =>
                       /\ Cardinality(entries) = 1
                       /\ \A j \in entries : keyLog[j].text = text /\ keyLog[j].value = text
                  /\ ~(accepts(text) /\ LeafEligible(file, ns, el, text)) => entries = {}

AnyText(v) == TRUE

\* C17 as stated: a leaf text is extracted, under one key, exactly when the
\* classifier accepts it and no skip rule excludes it.
C17_LeafByClassifier == LeavesExtractedBy(ClassifierAccepts)

\* C17: an element of a content tag without element children is extracted
\* as plain text under exactly one key when its trimmed text is not empty,
\* not excluded by isExcluded, holds no placeholder and no interpolation, the
\* element has no directive attribute and lies in no fragment extracted
\* before it; otherwise it has no plain-text entry.  The classifier is not
\* asked.
C17_LeafByExclusion == LeavesExtractedBy(AnyText)

\* a file read with a leaf whose text the classifier rejects extracted under
\* one key, and a file read with a leaf of excluded text that has no entry
C17_Witness ==
  /\ \E j \in 1..Len(keyLog) :
       /\ keyLog[j].kind = "text"
       /\ ~isDisplayText(keyLog[j].text, NoContext)
       /\ Cardinality(TextEntries(keyLog[j].file, keyLog[j].element)) = 1
  /\ \E r \in SucceededReads :
       LET ns == contentOf(fsReads[r].path).nodes
       IN  \E el \in 1..Len(ns) :
              /\ find(ns, el) = {}
              /\ ns[el].tag \in ContentTags
              /\ isExcluded(trim(elText(ns, el)))
              /\ TextEntries(fsReads[r].path, el) = {}

(***************************************************************************)
(* Elements with binding attributes.                                       *)
(***************************************************************************)
\* the entries an element yields for its own content
OwnEntries(file, el) ==
  { j \in 1..Len(keyLog) :
      /\ keyLog[j].file = file
      /\ keyLog[j].element = el
      /\ keyLog[j].kind \in {"text", "fragment"} }

\* a directive, a property or event binding, or interpolation in the value
BindingAttribute(a) == isDirectiveAttr(a.name) \/ includes(a.value, "{{")

\* C18: an element that carries a directive, a binding, an event handler or
\* an attribute holding interpolation yields no entry for its own content.
C18_BindingElementsSkipped ==
  \A r \in SucceededReads :
     LET file == fsReads[r].path
         ns == contentOf(file).nodes
     IN  \A el \in 1..Len(ns) :
            (\E k \in 1..Len(ns[el].attribs) : BindingAttribute(ns[el].attribs[k]))
              => OwnEntries(file, el) = {}

(***************************************************************************)
(* A second run over the rewritten files.                                  *)
(***************************************************************************)
\* the files the runs that have ended rewrote at a recorded location
RewrittenBefore(file) ==
  \E h \in 1..Len(history) : \E j \in 1..Len(history[h]) : history[h][j].file = file

\* no entry of the running session is a placeholder or holds one
NoPlaceholderRecorded ==
  \A j \in 1..Len(keyLog) :
    /\ ~includes(keyLog[j].value, PlaceholderOpen)
    /\ ~includes(keyLog[j].text, PlaceholderOpen)

\* C19: a run over files that an earlier run with replace has rewritten
\* records no entry for a text or attribute value that holds a placeholder,
\* and writes each such file back with its placeholders as they were.
C19_NoReExtraction ==
  Len(history) >= 1 =>
    /\ NoPlaceholderRecorded
    /\ (pc = "writeBack" /\ RewrittenBefore(fullPathAt(fileIdx)))
          => /\ pending[1] = disk[fullPathAt(fileIdx)]
             /\ Restore(pending[1], history[1]) = Serialised(fullPathAt(fileIdx))

\* the second run has read two files the first run rewrote, one with
\* placeholders in an attribute and in a leaf, and is about to write the
\* second back
C19_Witness ==
  /\ Len(history) = 1
  /\ pc = "writeBack"
  /\ fileIdx = 2
  /\ RewrittenBefore(fullPathAt(1))
  /\ RewrittenBefore(fullPathAt(2))
  /\ \E j \in 1..Len(history[1]) :
        /\ history[1][j].kind = "title"
        /\ includes(disk[history[1][j].file], "=\"" \o placeholder(history[1][j].key) \o "\"")
  /\ \E j \in 1..Len(history[1]) :
        /\ history[1][j].kind = "text"
        /\ includes(disk[history[1][j].file], ">" \o placeholder(history[1][j].key) \o "<")

(***************************************************************************)
(* Generic containers.                                                     *)
(***************************************************************************)
\* a text node with something other than white space directly in the element
HasDirectText(n) ==
  \E k \in 1..Len(n.children) :
    n.children[k].kind = "text" /\ trim(n.children[k].text) # ""

\* C20: display text directly inside a div or span that has no text-bearing
\* descendant element and no binding attribute, and that no skip rule
\* excludes, is extracted under one key.
C20_ContainerTextExtracted ==
  \A r \in SucceededReads :
     LET file == fsReads[r].path
         ns == contentOf(file).nodes
     IN  \A el \in 1..Len(ns) :
            LET text == trim(elText(ns, el))
            IN  ( /\ ns[el].tag \in GenericContainers
                  /\ HasDirectText(ns[el])
                  /\ \A d \in find(ns, el) : ns[d].tag \notin ContentChildTags
                  /\ \A k \in 1..Len(ns[el].attribs) : ~BindingAttribute(ns[el].attribs[k])
                  /\ isDisplayText(text, NoContext)
                  /\ ~isExcluded(text)
                  /\ ~holdsMarkers(text)
                  /\ \A j \in EntriesOf(file) :
                        keyLog[j].kind = "fragment" => el \notin find(ns, keyLog[j].element) )
                => Cardinality(OwnEntries(file, el)) = 1

(***************************************************************************)
(* One file at a time.                                                     *)
(***************************************************************************)
\* the reads made so far are those of the first files of the listing, in
\* listing order, and the write-backs attempted are those of the files read,
\* in the same order, all but the one in flight settled
InDiscoveryOrder ==
  /\ Len(fsReads) <= Len(htmlFiles)
  /\ \A k \in 1..Len(fsReads) : fsReads[k].path = fullPathAt(k)
  /\ \A i, j \in SourceAttempts :
        i < j => \E k, l \in SucceededReads :
                   /\ k < l
                   /\ fsReads[k].path = fsAttempts[i].path
                   /\ fsReads[l].path = fsAttempts[j].path
  /\ options.replace =>
        Cardinality(SourceAttempts) + (IF pc = "writeBack" THEN 1 ELSE 0)
          = Cardinality(SucceededReads)
  /\ (mkdirs # <<>> \/ ArtifactAttempts # {}) =>
        /\ AllFilesRead
        /\ pending = <<>>
        /\ \A i \in ArtifactAttempts : \A j \in SourceAttempts : j < i

\* a read starts only when nothing of the file before is in progress
ReadStartsWhenIdle ==
  fsReads' # fsReads =>
    /\ pending = <<>>
    /\ options.replace => Cardinality(SourceAttempts) = Cardinality(SucceededReads)
    /\ Len(fsReads') = Len(fsReads) + 1

\* C21: the files are read one at a time in discovery order, the read of a
\* file starting only when the read, extraction and write-back of the file
\* before have ended, and the output file is written after the last file.
C21_OneFileAtATime == []InDiscoveryOrder /\ [][ReadStartsWhenIdle]_vars

\* two files read and rewritten, then the output file written
C21_Witness ==
  /\ options.replace
  /\ pc = "done"
  /\ Len(htmlFiles) = 2
  /\ Cardinality(SucceededReads) = 2
  /\ Cardinality(SourceAttempts) = 2
  /\ fsAttempts[1].path = fullPathAt(1)
  /\ fsAttempts[2].path = fullPathAt(2)
  /\ fsAttempts[3].path = options.outputPath
  /\ Len(keyLog) >= 2

(***************************************************************************)
(* Logic files.                                                            *)
(***************************************************************************)
LogicPaths == { pathJoin(options.srcPath, tsFiles[k]) : k \in 1..Len(tsFiles) }

\* C22: unless excludeTs is set, a run that ends has read every discovered
\* logic file after the reads of all markup files; with excludeTs set no
\* logic file is read or written.
C22_LogicFilesProcessed ==
  /\ (pc = "done" /\ ~options.excludeTs) =>
        \A file \in LogicPaths :
          \E r \in 1..Len(fsReads) :
            /\ fsReads[r].path = file
            /\ \A q \in 1..Len(fsReads) : fsReads[q].path \notin LogicPaths => q < r
  /\ options.excludeTs =>
        /\ \A r \in 1..Len(fsReads) : fsReads[r].path \notin LogicPaths
        /\ \A i \in 1..Len(fsAttempts) : fsAttempts[i].path \notin LogicPaths

(***************************************************************************)
(* The classifier's rules.                                                 *)
(***************************************************************************)
Verdicts == { verdicts[k] : k \in 1..Len(verdicts) }

\* the candidate's trimmed form is empty, shorter than 2 characters, or made
\* of digits, whitespace and basic punctuation only
Degenerate(text) ==
  LET trimmed == trim(text)
  IN  \/ Len(trimmed) < 2
      \/ \A k \in 1..Len(trimmed) : Ch(trimmed, k) \in PunctCh

\* C23: isDisplayText returns false, with or without context, for every
\* candidate whose trimmed form is empty, shorter than 2 characters, or
\* consists solely of digits, whitespace and basic punctuation.
C23_DegenerateRejected ==
  \A v \in Verdicts : Degenerate(v.text) => ~v.result

\* the context marks an import or require target, a decorator argument or
\* a console call argument
MarksNonDisplay(context) ==
  /\ context # <<>>
  /\ \E f \in {"isImport", "isRequire", "isDecorator", "isComponentDecorator", "isConsole"} :
       context[1][f]

\* C24: isDisplayText returns false whenever the supplied context marks the
\* string as an import or require target, a decorator argument or a console
\* call argument, however phrase-like the string is.
C24_MarkedContextRejects ==
  \A v \in Verdicts : MarksNonDisplay(v.context) => ~v.result

\* a phrase the classifier accepts without context, rejected as the
\* argument of a console call
C24_Witness ==
  \E v \in Verdicts :
    /\ v.text = "Welcome to our application"
    /\ isDisplayText(v.text, NoContext)
    /\ v.context = Context("console")
    /\ ~v.result

\* the technical-error shapes: error class names and undefined/null
\* references, ALL_CAPS codes, method references and calls
TechnicalShapes == <<technicalPatterns[1], technicalPatterns[3], technicalPatterns[4]>>

LowercaseCount(text) == Cardinality({ k \in 1..Len(text) : Ch(text, k) \in Lower })

\* no technical-error shape, longer than 10 characters, two lowercase letters
UserFacing(text) ==
  /\ \A k \in 1..Len(TechnicalShapes) : ~test(TechnicalShapes[k], text)
  /\ Len(text) > MinErrorLen
  /\ LowercaseCount(text) >= 2

\* C25: with a context that marks a thrown-error argument, isDisplayText
\* accepts the string only if isUserFacingErrorMessage holds for it, and
\* isUserFacingErrorMessage holds iff the text matches no technical-error
\* shape, is longer than 10 characters and has two lowercase letters.
C25_ThrownErrorsUserFacing ==
  \A v \in Verdicts :
    v.context = Context("throw") =>
      /\ v.result => isUserFacingErrorMessage(trim(v.text))
      /\ isUserFacingErrorMessage(trim(v.text)) <=> UserFacing(trim(v.text))

LowerDigit == Lower \cup Digit

\* a lower-case start, letters and digits, and a capital among them
CamelCaseToken(text) ==
  /\ test(Cat(<<Bol, Set(Lower), Star(Set(AlphaNum)), Eol>>), text)
  /\ \E k \in 1..Len(text) : Ch(text, k) \in Upper

\* lower-case alphanumeric segments joined by hyphens
KebabCaseToken(text) ==
  test(Cat(<<Bol, Plus(Set(LowerDigit)),
             Plus(Cat(<<Lit("-"), Plus(Set(LowerDigit))>>)), Eol>>), text)

\* prop:value
CssDeclaration(text) ==
  test(Cat(<<Bol, Plus(Set(Letter \cup {"-"})), Lit(":"),
             Plus(Set(AlphaNum \cup {"-"})), Eol>>), text)

CodeToken(text) == CamelCaseToken(text) \/ KebabCaseToken(text) \/ CssDeclaration(text)

\* C26: without context, isDisplayText rejects every camelCase token, every
\* kebab-case token and every CSS declaration of the form prop:value.
C26_CodeTokensRejected ==
  \A v \in Verdicts :
    (v.context = NoContext /\ CodeToken(trim(v.text))) => ~v.result

(***************************************************************************)
(* Failed reads and the session.                                           *)
(***************************************************************************)
\* the paths of the reads that succeeded, in the order of the reads
PathsRead ==
  LET ok == SelectSeq(fsReads, LAMBDA call : call.error = <<>>)
  IN  [k \in 1..Len(ok) |-> ok[k].path]

\* the session after extractFromHtmlTemplate on each of the paths in turn,
\* every read succeeding, from the session st
RECURSIVE SessionOver(_, _)
SessionOver(paths, st) ==
  IF paths = <<>> THEN st
  ELSE LET filePath == Head(paths)
           after == extractDocument(load(sourceOf(filePath)), options, filePath,
                                    setComponentContext(<<>>, filePath),
                                    st.keyCounter, st.extractedTexts, st.keyLog)
       IN  SessionOver(Tail(paths),
                       [keyCounter |-> after.keyCounter,
                        extractedTexts |-> after.extractedTexts,
                        keyLog |-> after.keyLog])

\* with a failed read behind it, the session is the one of a run over the
\* files that were read, the failed ones left out of the listing
AsIfNotDiscovered ==
  FailedReads # {} =>
    LET without == SessionOver(PathsRead,
                               [keyCounter |-> InitialCounter, extractedTexts |-> <<>>,
                                keyLog |-> <<>>])
    IN  /\ keyCounter = without.keyCounter
        /\ extractedTexts = without.extractedTexts
        /\ keyLog = without.keyLog

\* C28: a failed read of a markup file leaves the mapping and the key
\* counter as they were before the file was started: the file adds no entry
\* and uses no counter value, and the keys of the files after it are those
\* of a run in which the failed file was not discovered.
C28_FailedReadLeavesSession ==
  /\ []AsIfNotDiscovered
  /\ [][ReadRejected => UNCHANGED <<extractedTexts, keyCounter, keyLog>>]_vars

\* the first read failed and the first key of the session, numbered 1, is
\* of the second file
C28_Witness ==
  /\ Len(fsReads) = 2
  /\ fsReads[1].error # <<>>
  /\ fsReads[2].error = <<>>
  /\ keyLog # <<>>
  /\ keyLog[1].file = fsReads[2].path
  /\ KeySuffix(keyLog[1].key) = "1"
  /\ EntriesOf(fsReads[1].path) = {}

(***************************************************************************)
(* Keys and the rewritten files.                                           *)
(***************************************************************************)
NoIoError ==
  /\ FailedReads = {}
  /\ \A i \in 1..Len(fsAttempts) : fsAttempts[i].error = <<>>
  /\ \A i \in 1..Len(mkdirs) : mkdirs[i].error = <<>>

\* the positions of the content at which the placeholder of the key stands
ReferencesIn(content, key) ==
  LET ph == PlaceholderOpen \o key \o PlaceholderClose
  IN  { i \in 1..(Len(content) - Len(ph) + 1) : SubSeq(content, i, i + Len(ph) - 1) = ph }

\* the placeholders of the key in the markup files as they stand on disk
References(key) ==
  UNION { { <<k, i>> : i \in ReferencesIn(disk[fullPathAt(k)], key) } :
            k \in 1..Len(htmlFiles) }

\* C29: after a run with replace set in which no fs call failed, every key
\* of the output file is referenced by exactly one placeholder in the
\* rewritten markup files: no key is recorded and absent from the sources.
C29_KeysReferencedOnce ==
  (pc = "done" /\ options.replace /\ NoIoError) =>
     \A j \in 1..Len(extractedTexts) :
       Cardinality(References(extractedTexts[j].key)) = 1

\* the write-back attempts that were rejected
FailedWriteBacks == { i \in SourceAttempts : fsAttempts[i].error # <<>> }

\* C30: a failed write-back of a rewritten markup file is logged as a
\* warning and the session goes on with the next file, and the file that
\* could not be rewritten has no entry in the mapping: the mapping holds only
\* keys whose placeholder was written.
C30_FailedWriteBackLeavesNoEntry ==
  \A i \in FailedWriteBacks :
    /\ WarningsFor(fsAttempts[i].path, fsAttempts[i].error[1]) # {}
    /\ exitCode = <<>> \/ pc = "exited"
    /\ \A j \in EntriesOf(fsAttempts[i].path) :
         TextOf(extractedTexts, keyLog[j].key) = <<>>

(***************************************************************************)
(* The rewrite of a logic file.                                            *)
(***************************************************************************)
\* the content with the literal of every entry replaced where it stands, the
\* last literal first; an entry holds the index and the value of its literal
RECURSIVE SubstitutedInPlace(_, _, _)
SubstitutedInPlace(original, content, entries) ==
  IF entries = {} THEN content
  ELSE LET e == CHOOSE x \in entries : \A y \in entries : y.element <= x.element
           before == substring(original, Max2(0, e.element - BeforeContextLen), e.element)
           literal == [context |-> [beforeContext |-> toLowerCase(before)]]
       IN  SubstitutedInPlace(original,
                              substring(content, 0, e.element)
                              \o lookupExpression(literal, e.key)
                              \o substring(content, e.element + Len(e.value) + 2, Len(content)),
                              entries \ {e})

LogicWrites == { w \in 1..Len(fsWrites) : fsWrites[w].path \in LogicFiles }

\* C27: in the rewrite of a logic file each accepted string literal is
\* substituted at its own occurrence and nothing else is: the written file
\* is the file read with the accepted literals replaced where they stand, so
\* an occurrence that was rejected, in a comment or a console call, is
\* unchanged also when the same text is accepted elsewhere in the file.
C27_LiteralsSubstitutedInPlace ==
  \A w \in LogicWrites :
    fsWrites[w].html[1]
      = ensureTranslateServiceIntegration(
          SubstitutedInPlace(logicSourceOf(fsWrites[w].path), logicSourceOf(fsWrites[w].path),
                             LoggedFor(fsWrites[w].path)),
          fsWrites[w].path, options.srcPath)
====
